---------------------------- MODULE Spec2Model ----------------------------
(***************************************************************************)
(* BGZF2 (src/bgzf2.c): a block container on top of Zstd.                  *)
(*                                                                         *)
(* The handle (struct bgzf2) is the record fp; the file behind fp->hfp is  *)
(* a sequence of bytes, so that frames, magic numbers and the seekable     *)
(* index are parsed the way the code parses them.  The caller's byte       *)
(* stream is B[i] = i: distinct values, so a lost, duplicated or reordered *)
(* byte shows.                                                             *)
(***************************************************************************)
EXTENDS Integers, Sequences, FiniteSets, TLC

(***************************************************************************)
(* Bounds of the model.                                                    *)
(***************************************************************************)
MaxBytes == 4
MaxCalls == 2
MaxBlock == 2
MaxRead == 2
WriterMaxBytes == 5
WriterMaxCalls == 4
WriterMaxBlock == 2
QueryMaxBlocks == 4
QueryMaxLen == 3
PoolMaxBytes == 2
PoolMaxBlock == 1
PoolMaxQsize == 1
PoolWorkers == 2
ReaderMaxBlocks == 2
ReaderMaxLen == 2
ReaderMaxCalls == 3
FaultyMaxLeft == 2
FaultyMaxCount == 8
DamagedMaxBlocks == 2
DamagedMaxLen == 1
SizesMaxCalls == 4
DamagedMaxCalls == 2
SizesSmall == 2
StreamMaxCalls == 3

(***************************************************************************)
(* Program constants.                                                      *)
(***************************************************************************)
BGZF2_DEFAULT_BLOCK_SIZE == 256000
BGZF2_DEFAULT_LEVEL == 5
BGZF2_MAX_BLOCK_SIZE == 1073741824
FIRST_BLOCK_SIZE == 1024
PZSTD_FRAME_LEN == 12
INT_MAX == 2147483647

\* 0x184D2A50, 0x184D2A5E, 0x8F92EAB1 and the Zstd frame magic 0xFD2FB528,
\* as the little-endian bytes u32_to_le stores in the file.
MAGIC_PZSTD == <<80, 42, 77, 24>>
MAGIC_SEEKABLE == <<94, 42, 77, 24>>
MAGIC_SEEKABLE_FOOTER == <<177, 234, 146, 143>>
MAGIC_ZSTD == <<40, 181, 47, 253>>

Min(a, b) == IF a < b THEN a ELSE b
Max(a, b) == IF a > b THEN a ELSE b

\* The caller's stream: byte number i (from 0) has value i.
Bytes(from, n) == [i \in 1..n |-> from + i - 1]

(***************************************************************************)
(* hts_endian.h                                                            *)
(***************************************************************************)
u32_to_le(v) ==
    <<v % 256, (v \div 256) % 256, (v \div 65536) % 256, (v \div 16777216) % 256>>

le_to_u32(b) == b[1] + 256 * b[2] + 65536 * b[3] + 16777216 * b[4]

(***************************************************************************)
(* hFILE: the bytes of the file and the offset of the handle.  left is the *)
(* number of hwrite calls the device still takes (-1: it never fails),     *)
(* wret the value the last hwrite returned, pipe a stream that cannot seek *)
(* (hseek fails with ESPIPE).                                              *)
(***************************************************************************)
hopen(bytes) == [data |-> bytes, pos |-> 0, left |-> -1, wret |-> 0, pipe |-> FALSE]

\* hread: the bytes read (fewer than n at the end of the file).
hread_bytes(h, n) ==
    IF h.pos >= Len(h.data) THEN <<>>
    ELSE SubSeq(h.data, h.pos + 1, Min(h.pos + n, Len(h.data)))

hread_adv(h, n) == [h EXCEPT !.pos = h.pos + Len(hread_bytes(h, n))]

\* hwrite: all the bytes are written and their number is returned, or the
\* device fails, nothing is written and -1 is returned.
hwrite(h, bytes) ==
    IF h.left = 0 THEN [h EXCEPT !.wret = -1]
    ELSE [h EXCEPT !.data = h.data \o bytes, !.pos = Len(h.data) + Len(bytes),
                   !.left = IF h.left > 0 THEN h.left - 1 ELSE h.left,
                   !.wret = Len(bytes)]

\* hseek(SEEK_SET): -1 for a negative offset or on a pipe, else the new offset.
hseek_ret(h, off) == IF off < 0 \/ h.pipe THEN -1 ELSE off
hseek_set(h, off) == IF off < 0 \/ h.pipe THEN h ELSE [h EXCEPT !.pos = off]

(***************************************************************************)
(* bgzf2_buffer: alloc, sz, pos and the bytes stored so far.  NULL is the  *)
(* null pointer.                                                           *)
(***************************************************************************)
NULL_BUFFER == [null |-> TRUE, alloc |-> 0, sz |-> 0, pos |-> 0, buf |-> <<>>]

\* Ensure size is at least n; sz is always set to n.
bgzf2_buffer_grow(b, n) ==
    [null |-> FALSE, alloc |-> Max(b.alloc, n), sz |-> n, pos |-> b.pos, buf |-> b.buf]

\* buf[i-1]; -1 stands for a byte that was never stored.
BufAt(b, i) == IF i >= 1 /\ i <= Len(b) THEN b[i] ELSE -1

\* memcpy(dst + off, src, Len(src)) on the stored bytes.
memcpy(dst, off, src) ==
    [i \in 1..Max(Len(dst), off + Len(src)) |->
        IF i > off /\ i <= off + Len(src) THEN src[i - off]
        ELSE IF i <= Len(dst) THEN dst[i] ELSE -1]

(***************************************************************************)
(* The Zstd codec, a lossless black box: a frame is the magic, a frame     *)
(* header byte (1: content size present), the content size, the payload.   *)
(***************************************************************************)
ZSTD_HEADER_LEN == 6

ZSTD_compressBound(n) == n + ZSTD_HEADER_LEN

ZSTD_compress2(src) == MAGIC_ZSTD \o <<1>> \o <<Len(src)>> \o src

\* compress_block: ret is the compressed size and out the frame; ret is -1
\* when the output buffer is smaller than the compress bound.
compress_block(src, comp_alloc) ==
    IF ZSTD_compressBound(Len(src)) > comp_alloc
    THEN [ret |-> -1, out |-> <<>>]
    ELSE [ret |-> Len(ZSTD_compress2(src)), out |-> ZSTD_compress2(src)]


(***************************************************************************)
(* hts_tpool_process: the queue of a thread pool with ordered results.     *)
(* input holds the dispatched jobs in dispatch order, processing the jobs  *)
(* a worker is running, output the finished jobs; a result is handed out   *)
(* only when its serial is next_serial.                                    *)
(***************************************************************************)
\* A job after memset(j, 0, sizeof(*j)); addr tells the jobs apart, as
\* their address does (0: no job).
calloc_job ==
    [uncomp |-> NULL_BUFFER, comp |-> NULL_BUFFER, errcode |-> 0,
     hit_eof |-> FALSE, job_num |-> 0, known_size |-> FALSE, addr |-> 0]

NULL_QUEUE ==
    [null |-> TRUE, input |-> <<>>, processing |-> {}, output |-> {},
     next_serial |-> 0, curr_serial |-> 0, qsize |-> 0,
     shutdown |-> FALSE, wake_dispatch |-> FALSE]

hts_tpool_process_init(qsize) ==
    [NULL_QUEUE EXCEPT !.null = FALSE, !.qsize = qsize]

\* hts_tpool_dispatch3 (blocking): waits while the input queue is full;
\* fails on a queue that is shut down; else the job gets the next serial.
hts_tpool_dispatch3(q, func, j) ==
    IF Len(q.input) >= q.qsize /\ ~q.shutdown /\ ~q.wake_dispatch
    THEN [q |-> q, ret |-> 0, blocked |-> TRUE]
    ELSE IF q.shutdown
    THEN [q |-> q, ret |-> -1, blocked |-> FALSE]
    ELSE [q |-> [q EXCEPT !.input = Append(q.input,
                                 [serial |-> q.curr_serial, func |-> func, job |-> j]),
                          !.curr_serial = q.curr_serial + 1,
                          !.wake_dispatch = FALSE],
          ret |-> 0, blocked |-> FALSE]

\* hts_tpool_next_result_wait: waits until the next result in order is
\* there; NULL once the queue is shut down.
hts_tpool_next_result_wait(q) ==
    IF q.shutdown \/ q.null THEN [q |-> q, null |-> TRUE, j |-> calloc_job, blocked |-> FALSE]
    ELSE IF \E r \in q.output : r.serial = q.next_serial
    THEN [q |-> [q EXCEPT !.output = q.output \ {r \in q.output : r.serial = q.next_serial},
                          !.next_serial = q.next_serial + 1],
          null |-> FALSE, j |-> (CHOOSE r \in q.output : r.serial = q.next_serial).job, blocked |-> FALSE]
    ELSE [q |-> q, null |-> TRUE, j |-> calloc_job, blocked |-> TRUE]

\* hts_tpool_wake_dispatch: a dispatch that waits goes on.
hts_tpool_wake_dispatch(q) == [q EXCEPT !.wake_dispatch = TRUE]

(***************************************************************************)
(* struct bgzf2 after calloc.                                              *)
(***************************************************************************)
calloc_bgzf2 ==
    [hfp |-> hopen(<<>>), level |-> 0, is_write |-> FALSE, first_block |-> FALSE,
     block_size |-> 0, index |-> <<>>, index_null |-> TRUE, errcode |-> 0,
     uncomp |-> NULL_BUFFER, comp |-> NULL_BUFFER,
     pool |-> FALSE, job_free_list |-> <<>>, jobs_pending |-> 0,
     flush_pending |-> 0, out_queue |-> NULL_QUEUE, hit_eof |-> FALSE,
     job_num |-> 0, command |-> "NONE", seek_to |-> 0, job_pool |-> 0]

(***************************************************************************)
(* The seekable index while writing.                                       *)
(***************************************************************************)
\* bgzf2_add_index: pos and cpos are not set while writing.
bgzf2_add_index(fp, uncomp, comp) ==
    [fp EXCEPT !.index = Append(fp.index,
                                [pos |-> 0, uncomp |-> uncomp, comp |-> comp, cpos |-> 0]),
               !.index_null = FALSE]

\* write_pzstd_skippable holding the size of the block before compression.
write_pzstd_skippable_usize(fp, comp_sz) ==
    [bgzf2_add_index(fp, 0, PZSTD_FRAME_LEN) EXCEPT
        !.hfp = hwrite(fp.hfp, MAGIC_PZSTD \o u32_to_le(4)
                               \o u32_to_le(comp_sz - ZSTD_HEADER_LEN))]

\* write_pzstd_skippable: index entry (0, 12), then the 12 bytes of the frame;
\* it fails when hwrite does not return 12.
write_pzstd_skippable(fp, comp_sz) ==
    [bgzf2_add_index(fp, 0, PZSTD_FRAME_LEN) EXCEPT
        !.hfp = hwrite(fp.hfp, MAGIC_PZSTD \o u32_to_le(4) \o u32_to_le(comp_sz))]

RECURSIVE index_bytes(_)
index_bytes(idx) ==
    IF idx = <<>> THEN <<>>
    ELSE u32_to_le(idx[1].comp) \o u32_to_le(idx[1].uncomp) \o index_bytes(Tail(idx))

\* write_seekable_index without the byte of flags in the footer.
write_seekable_index_no_flags(fp) ==
    [fp EXCEPT !.hfp = hwrite(fp.hfp,
        MAGIC_SEEKABLE \o u32_to_le(Len(fp.index) * 8 + 9) \o index_bytes(fp.index)
        \o u32_to_le(Len(fp.index)) \o MAGIC_SEEKABLE_FOOTER)]

\* write_seekable_index: header, the entries, the footer, in one hwrite; it
\* fails when hwrite does not return their length.
write_seekable_index(fp) ==
    [fp EXCEPT !.hfp = hwrite(fp.hfp,
        MAGIC_SEEKABLE \o u32_to_le(Len(fp.index) * 8 + 9) \o index_bytes(fp.index)
        \o u32_to_le(Len(fp.index)) \o <<0>> \o MAGIC_SEEKABLE_FOOTER)]

(***************************************************************************)
(* The job free list.                                                      *)
(***************************************************************************)
\* bgzf2_job_free: push on the free list.
bgzf2_job_free(fp, j) == [fp EXCEPT !.job_free_list = <<j>> \o fp.job_free_list]

\* bgzf2_job_new: the head of the free list as it is, else a zeroed job
\* from fp->job_pool, which counts the jobs it has handed out.
bgzf2_job_new(fp) ==
    IF fp.job_free_list # <<>>
    THEN [fp |-> [fp EXCEPT !.job_free_list = Tail(fp.job_free_list)],
          j |-> Head(fp.job_free_list)]
    ELSE [fp |-> [fp EXCEPT !.job_pool = fp.job_pool + 1],
          j |-> [calloc_job EXCEPT !.addr = fp.job_pool + 1]]

(***************************************************************************)
(* Writing blocks.  The result of a call is the handle, the value          *)
(* returned, and blocked: the call waits in hts_tpool_dispatch3.           *)
(***************************************************************************)
Returned(fp, ret) == [fp |-> fp, ret |-> ret, blocked |-> FALSE]

\* bgzf2_write_block once the block is compressed (c): the preface, the
\* index entry of uncomp bytes, the data frame.  The test of the result of
\* compress_block is made on a size_t and never holds.  -1 when the preface
\* or the data frame cannot be written; the buffer is then left as it is.
write_block_frames(fp, c, uncomp) ==
    IF write_pzstd_skippable(fp, c.ret).hfp.wret # PZSTD_FRAME_LEN
    THEN Returned([write_pzstd_skippable(fp, c.ret) EXCEPT
                      !.comp.sz = c.ret, !.comp.buf = c.out],
                  -1)
    ELSE IF hwrite(write_pzstd_skippable(fp, c.ret).hfp, c.out).wret # c.ret
    THEN Returned([bgzf2_add_index(write_pzstd_skippable(fp, c.ret), uncomp, c.ret) EXCEPT
                      !.hfp = hwrite(write_pzstd_skippable(fp, c.ret).hfp, c.out),
                      !.comp.sz = c.ret, !.comp.buf = c.out],
                  -1)
    ELSE Returned([bgzf2_add_index(write_pzstd_skippable(fp, c.ret), uncomp, c.ret) EXCEPT
                      !.hfp = hwrite(write_pzstd_skippable(fp, c.ret).hfp, c.out),
                      !.comp.sz = c.ret, !.comp.buf = c.out,
                      !.uncomp.pos = 0],
                  0)

\* A slip in bgzf2_write_block: the whole buffer (buf->sz bytes) is
\* compressed instead of the buf->pos bytes stored in it.
bgzf2_write_block_whole_buffer(fp) ==
    write_block_frames(
        [fp EXCEPT !.comp = bgzf2_buffer_grow(fp.comp, ZSTD_compressBound(fp.uncomp.sz))],
        compress_block([i \in 1..fp.uncomp.sz |-> BufAt(fp.uncomp.buf, i)],
                       Max(fp.comp.alloc, ZSTD_compressBound(fp.uncomp.sz))),
        fp.uncomp.pos)

\* bgzf2_write_block: compress buf[0..pos), write preface and data frame,
\* index the block with buf->pos bytes.
bgzf2_write_block(fp) ==
    write_block_frames(
        [fp EXCEPT !.comp = bgzf2_buffer_grow(fp.comp, ZSTD_compressBound(fp.uncomp.sz))],
        compress_block(SubSeq(fp.uncomp.buf, 1, fp.uncomp.pos),
                       Max(fp.comp.alloc, ZSTD_compressBound(fp.uncomp.sz))),
        fp.uncomp.pos)

\* The job that bgzf2_write_block_mt fills out: uncomp->sz is buf->sz and
\* uncomp->pos is buf->pos.
write_block_mt_job(fp, j) ==
    [j EXCEPT !.job_num = fp.job_num,
              !.uncomp = [bgzf2_buffer_grow(j.uncomp, fp.uncomp.sz) EXCEPT
                             !.buf = memcpy(j.uncomp.buf, 0,
                                            SubSeq(fp.uncomp.buf, 1, fp.uncomp.pos)),
                             !.pos = fp.uncomp.pos],
              !.comp = bgzf2_buffer_grow(j.comp, ZSTD_compressBound(fp.uncomp.sz))]

\* bgzf2_write_block_mt after the dispatch (d) of job j; f is the handle
\* once the job was taken.
write_block_mt_dispatched(fp, f, j, d) ==
    IF d.blocked THEN [fp |-> fp, ret |-> 0, blocked |-> TRUE]
    ELSE IF d.ret < 0
    THEN Returned([bgzf2_job_free(f, j) EXCEPT !.job_num = fp.job_num + 1], -1)
    ELSE Returned([f EXCEPT !.job_num = fp.job_num + 1,
                            !.jobs_pending = fp.jobs_pending + 1,
                            !.out_queue = d.q,
                            !.uncomp.pos = 0],
                  0)

\* bgzf2_write_block_mt: copy the block into a job and dispatch it.
bgzf2_write_block_mt(fp) ==
    write_block_mt_dispatched(fp, bgzf2_job_new(fp).fp,
                              write_block_mt_job(fp, bgzf2_job_new(fp).j),
                              hts_tpool_dispatch3(fp.out_queue, "bgzf2_encode_func",
                                                  write_block_mt_job(fp, bgzf2_job_new(fp).j)))

\* bgzf2_flush after the block was written (w): the buffer is set to
\* block_size after the first block, and the value returned is then that
\* of bgzf2_buffer_grow, whatever the write of the block returned.
flush_first_block(w) ==
    IF w.blocked \/ ~w.fp.first_block THEN w
    ELSE Returned([w.fp EXCEPT !.first_block = FALSE,
                               !.uncomp = bgzf2_buffer_grow(w.fp.uncomp, w.fp.block_size)],
                  0)

\* bgzf2_flush: nothing for an empty buffer.
bgzf2_flush(fp) ==
    IF fp.uncomp.pos = 0 THEN Returned(fp, 0)
    ELSE flush_first_block(IF fp.pool THEN bgzf2_write_block_mt(fp)
                           ELSE bgzf2_write_block(fp))

\* bgzf2_set_block_size after its flush (fl).
set_block_size_grow(fl, sz) ==
    IF fl.blocked \/ fl.ret < 0 THEN [fl EXCEPT !.ret = -1]
    ELSE Returned([fl.fp EXCEPT !.uncomp =
                      bgzf2_buffer_grow(fl.fp.uncomp,
                                        IF fl.fp.first_block /\ sz >= FIRST_BLOCK_SIZE
                                        THEN FIRST_BLOCK_SIZE ELSE sz)],
                  0)

\* bgzf2_set_block_size
bgzf2_set_block_size(fp, sz) ==
    set_block_size_grow(IF fp.uncomp.null THEN Returned([fp EXCEPT !.block_size = sz], 0)
                        ELSE bgzf2_flush([fp EXCEPT !.block_size = sz]),
                        sz)

\* bgzf2_open_common, mode "w": the handle of bgzf2_open on a new file.
bgzf2_open_w ==
    [bgzf2_set_block_size([calloc_bgzf2 EXCEPT !.first_block = TRUE, !.is_write = TRUE],
                          BGZF2_DEFAULT_BLOCK_SIZE).fp
        EXCEPT !.level = BGZF2_DEFAULT_LEVEL]

\* bgzf2_open_common, mode "r", on the bytes of a file.
bgzf2_open_r(bytes) ==
    [calloc_bgzf2 EXCEPT !.first_block = TRUE, !.hfp = hopen(bytes)]

(***************************************************************************)
(* bgzf2_write: one pass of the do-while loop.  st holds the handle, the   *)
(* bytes left (buf), the count r, and, once done, the returned value ret.  *)
(***************************************************************************)
\* consumes: the room left in the buffer, at most buf_sz (the comparison is
\* unsigned).
write_consumes(fp, buf_sz) ==
    IF fp.uncomp.sz - fp.uncomp.pos < 0 \/ fp.uncomp.sz - fp.uncomp.pos > buf_sz
    THEN buf_sz ELSE fp.uncomp.sz - fp.uncomp.pos

\* Cannot split and does not fit: after the flush (fl), the buffer is sized
\* to buf_sz and the bytes are stored at its start.
write_iter_nosplit(st, fl) ==
    IF fl.blocked THEN [st EXCEPT !.blocked = TRUE]
    ELSE IF fl.ret # 0
    THEN [st EXCEPT !.fp = fl.fp, !.done = TRUE, !.ret = -1, !.blocked = FALSE]
    ELSE [st EXCEPT !.fp = [fl.fp EXCEPT !.uncomp =
                               [bgzf2_buffer_grow(fl.fp.uncomp, Len(st.buf)) EXCEPT
                                   !.buf = memcpy(fl.fp.uncomp.buf, 0, st.buf)]],
                    !.blocked = FALSE]

\* The copy of the pass: whole, or can_split and a portion.
write_iter_copy(st, fp, consumes, can_split) ==
    IF consumes = Len(st.buf) \/ can_split
    THEN [fp |-> [fp EXCEPT !.uncomp.buf = memcpy(fp.uncomp.buf, fp.uncomp.pos,
                                                  SubSeq(st.buf, 1, consumes)),
                            !.uncomp.pos = fp.uncomp.pos + consumes],
          buf |-> SubSeq(st.buf, consumes + 1, Len(st.buf)),
          r |-> st.r + consumes,
          done |-> (consumes = Len(st.buf)), ret |-> 0, blocked |-> FALSE]
    ELSE write_iter_nosplit(st, bgzf2_flush(fp))

\* if (!fp->uncomp) bgzf2_buffer_grow(&fp->uncomp, fp->block_size)
write_iter_alloc(fp) ==
    IF fp.uncomp.null
    THEN [fp EXCEPT !.uncomp = bgzf2_buffer_grow(fp.uncomp, fp.block_size)]
    ELSE fp

\* The pass after the flush of a full buffer (fl).
write_iter_flushed(st, fl, can_split) ==
    IF fl.blocked THEN [st EXCEPT !.blocked = TRUE]
    ELSE IF fl.ret # 0
    THEN [st EXCEPT !.fp = fl.fp, !.done = TRUE, !.ret = -1, !.blocked = FALSE]
    ELSE write_iter_copy(st, write_iter_alloc(fl.fp),
                         write_consumes(write_iter_alloc(fl.fp), Len(st.buf)), can_split)

bgzf2_write_iter(st, can_split) ==
    write_iter_flushed(st,
                       IF ~st.fp.uncomp.null /\ st.fp.uncomp.sz = st.fp.uncomp.pos
                       THEN bgzf2_flush(st.fp)
                       ELSE Returned(st.fp, 0),
                       can_split)

write_start(fp, buf) ==
    [fp |-> fp, buf |-> buf, r |-> 0, done |-> FALSE, ret |-> 0, blocked |-> FALSE]

\* The loop run until the call returns (no pool: a pass never waits).
RECURSIVE bgzf2_write_loop(_, _)
bgzf2_write_loop(st, can_split) ==
    IF st.done THEN st ELSE bgzf2_write_loop(bgzf2_write_iter(st, can_split), can_split)

\* bgzf2_write without a pool; the value returned is 0, not r.
bgzf2_write(fp, buf, can_split) ==
    bgzf2_write_loop(bgzf2_write_iter(write_start(fp, buf), can_split), can_split)

(***************************************************************************)
(* Reading blocks.                                                         *)
(***************************************************************************)
ZSTD_CONTENTSIZE_UNKNOWN == -1
ZSTD_CONTENTSIZE_ERROR == -2

ZSTD_getFrameContentSize(src) ==
    IF Len(src) < 5 \/ SubSeq(src, 1, 4) # MAGIC_ZSTD THEN ZSTD_CONTENTSIZE_ERROR
    ELSE IF src[5] = 0 THEN ZSTD_CONTENTSIZE_UNKNOWN
    ELSE IF Len(src) < 6 THEN ZSTD_CONTENTSIZE_ERROR
    ELSE src[6]

\* The payload of a frame.
ZSTD_payload(src) ==
    IF src[5] = 0 THEN SubSeq(src, 6, Len(src)) ELSE SubSeq(src, 7, Len(src))

\* ZSTD_decompress into a buffer of dstCapacity bytes: ret is the size, or
\* -1 for a bad frame, a size that differs from the header, a full buffer.
ZSTD_decompress(dstCapacity, src) ==
    IF ZSTD_getFrameContentSize(src) = ZSTD_CONTENTSIZE_ERROR
    THEN [ret |-> -1, out |-> <<>>]
    ELSE IF src[5] = 1 /\ src[6] # Len(ZSTD_payload(src))
    THEN [ret |-> -1, out |-> <<>>]
    ELSE IF Len(ZSTD_payload(src)) > dstCapacity
    THEN [ret |-> -1, out |-> <<>>]
    ELSE [ret |-> Len(ZSTD_payload(src)), out |-> ZSTD_payload(src)]

\* bgzf2_read_block: parse frames from the offset of h until the data frame
\* that follows a preface has been loaded into comp.
\* ret: > 0 the size once uncompressed, 0 EOF (or an empty frame),
\*      -1 failure, -2 unknown size, -3 no preface.
RECURSIVE bgzf2_read_block(_, _)

\* The data frame: csize bytes asked for, data the bytes read.
read_block_data(h, comp, csize, data) ==
    [h |-> h,
     comp |-> [bgzf2_buffer_grow(comp, csize) EXCEPT !.buf = memcpy(comp.buf, 0, data)],
     ret |-> IF Len(data) # csize THEN -1
             ELSE IF ZSTD_getFrameContentSize(data) = ZSTD_CONTENTSIZE_UNKNOWN THEN -2
             ELSE IF ZSTD_getFrameContentSize(data) = ZSTD_CONTENTSIZE_ERROR THEN -1
             ELSE ZSTD_getFrameContentSize(data)]

\* The remainder of the preface (szb), which holds the compressed size.
read_block_preface(h, comp, szb) ==
    IF Len(szb) # 4 THEN [h |-> h, comp |-> comp, ret |-> -1]
    ELSE read_block_data(hread_adv(h, le_to_u32(szb)), comp, le_to_u32(szb),
                         hread_bytes(h, le_to_u32(szb)))

\* A skippable frame that is no preface: skip its fsize bytes.
read_block_skip(h, comp, fsize) ==
    IF Len(hread_bytes(h, fsize)) # fsize
    THEN [h |-> hread_adv(h, fsize), comp |-> comp, ret |-> -1]
    ELSE CHOOSE rb \in {bgzf2_read_block(next, comp) : next \in {hread_adv(h, fsize)}} : TRUE

\* read_block_header taking every frame of magic 0x184D2A50 for a preface,
\* whatever its length.
read_block_header_any_length(h, comp, hdr) ==
    IF Len(hdr) # 8
    THEN [h |-> h, comp |-> comp, ret |-> IF Len(hdr) = 0 THEN 0 ELSE -1]
    ELSE IF SubSeq(hdr, 1, 4) # MAGIC_PZSTD
    THEN IF hdr[1] >= 80 /\ hdr[1] <= 95 /\ SubSeq(hdr, 2, 4) = SubSeq(MAGIC_PZSTD, 2, 4)
         THEN read_block_skip(h, comp, le_to_u32(SubSeq(hdr, 5, 8)))
         ELSE [h |-> h, comp |-> comp, ret |-> -3]
    ELSE read_block_preface(hread_adv(h, 4), comp, hread_bytes(h, 4))

\* The 8 bytes (hdr) at the start of a frame.  A frame with a magic number
\* from 0x184D2A50 to 0x184D2A5F that is no preface is skipped.
read_block_header(h, comp, hdr) ==
    IF Len(hdr) # 8
    THEN [h |-> h, comp |-> comp, ret |-> IF Len(hdr) = 0 THEN 0 ELSE -1]
    ELSE IF SubSeq(hdr, 1, 4) # MAGIC_PZSTD \/ le_to_u32(SubSeq(hdr, 5, 8)) # 4
    THEN IF hdr[1] >= 80 /\ hdr[1] <= 95 /\ SubSeq(hdr, 2, 4) = SubSeq(MAGIC_PZSTD, 2, 4)
         THEN read_block_skip(h, comp, le_to_u32(SubSeq(hdr, 5, 8)))
         ELSE [h |-> h, comp |-> comp, ret |-> -3]
    ELSE read_block_preface(hread_adv(h, 4), comp, hread_bytes(h, 4))

bgzf2_read_block(h, comp) == read_block_header(hread_adv(h, 8), comp, hread_bytes(h, 8))

\* One ZSTD_decompress (d) into the usize bytes of u.
decompress_known(comp, u, d) ==
    IF d.ret # u.sz THEN [comp |-> comp, uncomp |-> u, ret |-> -1]
    ELSE [comp |-> comp,
          uncomp |-> [u EXCEPT !.buf = memcpy(u.buf, 0, d.out), !.pos = 0],
          ret |-> u.sz]

\* A frame without content size, stream-decoded (d) into u, which grows.
decompress_stream(comp, u, d) ==
    IF d.ret < 0 THEN [comp |-> [comp EXCEPT !.pos = 0], uncomp |-> u, ret |-> -1]
    ELSE [comp |-> [comp EXCEPT !.pos = 0],
          uncomp |-> [u EXCEPT !.alloc = Max(u.alloc, d.ret), !.sz = d.ret,
                               !.pos = 0, !.buf = d.out],
          ret |-> d.ret]

\* bgzf2_decompress_block: usize -2 is a frame without content size.
bgzf2_decompress_block(comp, uncomp, usize) ==
    IF usize = -2
    THEN decompress_stream(comp,
                           IF uncomp.null \/ uncomp.alloc = 0
                           THEN bgzf2_buffer_grow(uncomp, comp.sz * 4 + 8192)
                           ELSE uncomp,
                           ZSTD_decompress(INT_MAX, SubSeq(comp.buf, 1, comp.sz)))
    ELSE IF usize > BGZF2_MAX_BLOCK_SIZE
    THEN [comp |-> comp, uncomp |-> uncomp, ret |-> -1]
    ELSE decompress_known(comp, bgzf2_buffer_grow(uncomp, usize),
                          ZSTD_decompress(usize, SubSeq(comp.buf, 1, comp.sz)))

\* bgzf2_decode_block after bgzf2_decompress_block (d).
decode_block_decompressed(fp, d) ==
    Returned([fp EXCEPT !.comp = d.comp, !.uncomp = d.uncomp], d.ret)

\* bgzf2_decode_block after bgzf2_read_block (rb).
decode_block_read(fp, rb) ==
    IF rb.ret # -2 /\ rb.ret <= 0
    THEN Returned([fp EXCEPT !.hfp = rb.h, !.comp = rb.comp], rb.ret)
    ELSE decode_block_decompressed([fp EXCEPT !.hfp = rb.h],
                                   bgzf2_decompress_block(rb.comp, fp.uncomp, rb.ret))

\* bgzf2_decode_block: read the next block and decompress it into fp->uncomp.
bgzf2_decode_block(fp) == decode_block_read(fp, bgzf2_read_block(fp.hfp, fp.comp))

\* bgzf2_decode_block_mt after hts_tpool_next_result_wait (r): the buffer of
\* the job is swapped into the handle; the block starts at seek_to.
decode_block_mt_result(fp, r) ==
    IF r.blocked THEN [fp |-> fp, ret |-> 0, blocked |-> TRUE]
    ELSE IF r.null THEN Returned([fp EXCEPT !.out_queue = r.q], -1)
    ELSE IF r.j.hit_eof
    THEN Returned(bgzf2_job_free([fp EXCEPT !.out_queue = r.q, !.hit_eof = TRUE], r.j), 0)
    ELSE Returned([bgzf2_job_free([fp EXCEPT !.out_queue = r.q],
                                  [r.j EXCEPT !.uncomp = fp.uncomp])
                      EXCEPT !.uncomp = [r.j.uncomp EXCEPT !.pos = fp.seek_to],
                             !.seek_to = 0],
                  r.j.uncomp.sz)

\* bgzf2_decode_block_mt: the next decoded block of the queue.
bgzf2_decode_block_mt(fp) ==
    IF fp.hit_eof THEN Returned(fp, 0)
    ELSE decode_block_mt_result(fp, hts_tpool_next_result_wait(fp.out_queue))

(***************************************************************************)
(* bgzf2_read: one pass of the while loop.  st holds the handle, the room  *)
(* left in the caller's buffer (buf_sz), the bytes copied so far (out),    *)
(* and, once done, the returned value ret.  The result of the decode call  *)
(* is held in a size_t, so a negative value is not seen as a failure.      *)
(***************************************************************************)
\* MIN(buf_sz, sz - pos), unsigned.
read_n(fp, buf_sz) ==
    IF fp.uncomp.sz - fp.uncomp.pos < 0 \/ buf_sz < fp.uncomp.sz - fp.uncomp.pos
    THEN buf_sz ELSE fp.uncomp.sz - fp.uncomp.pos

\* The copy of n bytes from the buffer of the handle.
read_iter_copy(st, fp, n) ==
    [fp |-> [fp EXCEPT !.uncomp.pos = fp.uncomp.pos + n],
     buf_sz |-> st.buf_sz - n,
     out |-> st.out \o [i \in 1..n |-> BufAt(fp.uncomp.buf, fp.uncomp.pos + i)],
     done |-> (st.buf_sz - n = 0), ret |-> Len(st.out) + n,
     crash |-> FALSE, blocked |-> FALSE]

\* The pass after the fetch of a block (d).
read_iter_fetched(st, d) ==
    IF d.blocked THEN [st EXCEPT !.blocked = TRUE]
    ELSE IF d.ret = 0
    THEN [st EXCEPT !.fp = [d.fp EXCEPT !.hit_eof = TRUE], !.done = TRUE,
                    !.ret = Len(st.out), !.blocked = FALSE]
    ELSE IF d.fp.uncomp.null
    THEN [st EXCEPT !.fp = d.fp, !.done = TRUE, !.crash = TRUE, !.blocked = FALSE]
    ELSE read_iter_copy(st, d.fp, read_n(d.fp, st.buf_sz))

bgzf2_read_iter(st) ==
    read_iter_fetched(st,
                      IF st.fp.uncomp.null \/ st.fp.uncomp.pos = st.fp.uncomp.sz
                      THEN (IF st.fp.pool THEN bgzf2_decode_block_mt(st.fp)
                            ELSE bgzf2_decode_block(st.fp))
                      ELSE Returned(st.fp, 1))

\* bgzf2_read without its test of hit_eof at the entry.
read_start_again(fp, buf_sz) ==
    [fp |-> fp, buf_sz |-> buf_sz, out |-> <<>>,
     done |-> (buf_sz = 0), ret |-> 0, crash |-> FALSE, blocked |-> FALSE]

read_start(fp, buf_sz) ==
    [fp |-> fp, buf_sz |-> buf_sz, out |-> <<>>,
     done |-> (fp.hit_eof \/ buf_sz = 0), ret |-> 0, crash |-> FALSE, blocked |-> FALSE]

\* The loop run until the call returns (no pool: a pass never waits).
RECURSIVE bgzf2_read_loop(_)
bgzf2_read_loop(st) ==
    IF st.done THEN st ELSE bgzf2_read_loop(bgzf2_read_iter(st))

\* bgzf2_read without a pool.
bgzf2_read(fp, buf_sz) == bgzf2_read_loop(read_start(fp, buf_sz))

\* bgzf2_read_zero_copy: at most one block is fetched, and the bytes handed
\* out are those left in the buffer, at most buf_sz.  The result of the
\* decode call is held in a ssize_t: a failure returns -1.
bgzf2_read_zero_copy(fp, buf_sz) ==
    IF fp.hit_eof \/ buf_sz = 0 THEN [read_start(fp, buf_sz) EXCEPT !.done = TRUE]
    ELSE IF ~fp.uncomp.null /\ fp.uncomp.pos # fp.uncomp.sz
    THEN [read_iter_copy(read_start(fp, buf_sz), fp, read_n(fp, buf_sz))
             EXCEPT !.done = TRUE]
    ELSE LET d == IF fp.pool THEN bgzf2_decode_block_mt(fp) ELSE bgzf2_decode_block(fp)
         IN  IF d.blocked THEN [read_start(fp, buf_sz) EXCEPT !.blocked = TRUE]
             ELSE IF d.ret < 0
             THEN [read_start(fp, buf_sz) EXCEPT !.fp = d.fp, !.done = TRUE, !.ret = -1]
             ELSE IF d.ret = 0
             THEN [read_start(fp, buf_sz) EXCEPT !.fp = [d.fp EXCEPT !.hit_eof = TRUE],
                                                 !.done = TRUE]
             ELSE [read_iter_copy(read_start(fp, buf_sz), d.fp, read_n(d.fp, buf_sz))
                      EXCEPT !.done = TRUE]

(***************************************************************************)
(* The seekable index while reading.                                       *)
(***************************************************************************)
\* The entries of the index frame with cpos the running total of the
\* uncompressed sizes.
RECURSIVE decode_index_cpos_uncomp(_, _, _, _, _)
decode_index_cpos_uncomp(idxp, stride, n, pos, cpos) ==
    IF n = 0 THEN <<>>
    ELSE <<[pos |-> pos, uncomp |-> le_to_u32(SubSeq(idxp, 5, 8)),
            comp |-> le_to_u32(SubSeq(idxp, 1, 4)), cpos |-> cpos]>>
         \o decode_index_cpos_uncomp(SubSeq(idxp, stride + 1, Len(idxp)), stride, n - 1,
                                     pos + le_to_u32(SubSeq(idxp, 5, 8)),
                                     cpos + le_to_u32(SubSeq(idxp, 5, 8)))

\* The entries of the index frame, with the running totals pos and cpos.
RECURSIVE decode_index(_, _, _, _, _)
decode_index(idxp, stride, n, pos, cpos) ==
    IF n = 0 THEN <<>>
    ELSE <<[pos |-> pos, uncomp |-> le_to_u32(SubSeq(idxp, 5, 8)),
            comp |-> le_to_u32(SubSeq(idxp, 1, 4)), cpos |-> cpos]>>
         \o decode_index(SubSeq(idxp, stride + 1, Len(idxp)), stride, n - 1,
                         pos + le_to_u32(SubSeq(idxp, 5, 8)),
                         cpos + le_to_u32(SubSeq(idxp, 1, 4)))

\* sz = 9 + nframes*4*(2+has_chksum) + 8
index_frame_size(footer) ==
    9 + le_to_u32(SubSeq(footer, 1, 4)) * 4 * (2 + (footer[5] \div 128) * 128) + 8

\* load_seekable_index once the sz bytes of the index frame were asked for
\* (buf the bytes read, h the file after the read).
\* malloc0_null: malloc(0) returns NULL (an index of no entry).
load_index_frame(fp, h, footer, sz, buf, malloc0_null) ==
    IF Len(buf) # sz THEN Returned([fp EXCEPT !.hfp = h], -1)
    ELSE IF SubSeq(buf, 1, 4) # MAGIC_SEEKABLE THEN Returned([fp EXCEPT !.hfp = h], -3)
    ELSE IF le_to_u32(SubSeq(buf, 5, 8)) # sz - 8 THEN Returned([fp EXCEPT !.hfp = h], -3)
    ELSE IF le_to_u32(SubSeq(footer, 1, 4)) = 0 /\ malloc0_null
    THEN Returned([fp EXCEPT !.hfp = h, !.index = <<>>, !.index_null = TRUE], -1)
    ELSE Returned([fp EXCEPT !.hfp = hseek_set(h, 0), !.index_null = FALSE,
                             !.index = decode_index(SubSeq(buf, 9, Len(buf)),
                                                    4 * (2 + (footer[5] \div 128) * 128),
                                                    le_to_u32(SubSeq(footer, 1, 4)), 0, 0)],
                  0)

\* load_index_footer without the test of the reserved flag bits.
load_index_footer_any_flags(fp, h, footer, malloc0_null) ==
    IF Len(footer) # 9 THEN Returned([fp EXCEPT !.hfp = h], -1)
    ELSE IF SubSeq(footer, 6, 9) # MAGIC_SEEKABLE_FOOTER
    THEN Returned([fp EXCEPT !.hfp = h], -3)
    ELSE IF hseek_ret(h, Len(h.data) - index_frame_size(footer)) < 0
    THEN Returned([fp EXCEPT !.hfp = h], -1)
    ELSE load_index_frame(
             fp,
             hread_adv(hseek_set(h, Len(h.data) - index_frame_size(footer)),
                       index_frame_size(footer)),
             footer, index_frame_size(footer),
             hread_bytes(hseek_set(h, Len(h.data) - index_frame_size(footer)),
                         index_frame_size(footer)),
             malloc0_null)

\* load_seekable_index once the footer was read (h the file after the read).
load_index_footer(fp, h, footer, malloc0_null) ==
    IF Len(footer) # 9 THEN Returned([fp EXCEPT !.hfp = h], -1)
    ELSE IF SubSeq(footer, 6, 9) # MAGIC_SEEKABLE_FOOTER \/ (footer[5] \div 4) % 32 # 0
    THEN Returned([fp EXCEPT !.hfp = h], -3)
    ELSE IF hseek_ret(h, Len(h.data) - index_frame_size(footer)) < 0
    THEN Returned([fp EXCEPT !.hfp = h], -1)
    ELSE load_index_frame(
             fp,
             hread_adv(hseek_set(h, Len(h.data) - index_frame_size(footer)),
                       index_frame_size(footer)),
             footer, index_frame_size(footer),
             hread_bytes(hseek_set(h, Len(h.data) - index_frame_size(footer)),
                         index_frame_size(footer)),
             malloc0_null)

\* load_seekable_index: 0, -1 on error, -2 on a stream that cannot seek
\* (errno is ESPIPE), -3 if no index is found.
load_seekable_index(fp, malloc0_null) ==
    IF hseek_ret(fp.hfp, Len(fp.hfp.data) - 9) < 0
    THEN Returned(fp, IF fp.hfp.pipe THEN -2 ELSE -1)
    ELSE load_index_footer(fp,
                           hread_adv(hseek_set(fp.hfp, Len(fp.hfp.data) - 9), 9),
                           hread_bytes(hseek_set(fp.hfp, Len(fp.hfp.data) - 9), 9),
                           malloc0_null)

\* idx[i], i from 0; a read outside the array yields the value oob.
IdxAt(idx, i, oob) == IF i >= 0 /\ i < Len(idx) THEN idx[i + 1] ELSE oob

\* The binary search loop of index_query.
RECURSIVE index_search(_, _, _, _, _, _)
index_search(idx, upos, istart, iend, imid, oob) ==
    IF imid = istart THEN imid
    ELSE IF IdxAt(idx, imid, oob).pos >= upos
    THEN index_search(idx, upos, istart, imid, (istart + imid) \div 2, oob)
    ELSE index_search(idx, upos, imid, iend, (imid + iend) \div 2, oob)

\* while (imid+1 < nindex && idx[imid].uncomp == 0) imid++
RECURSIVE skip_forward(_, _, _)
skip_forward(idx, imid, oob) ==
    IF imid + 1 < Len(idx) /\ IdxAt(idx, imid, oob).uncomp = 0
    THEN skip_forward(idx, imid + 1, oob) ELSE imid

RECURSIVE walk_back(_, _, _)

\* A slip in index_query: the entry found is returned as it is.
walk_back_none(idx, imid, oob) == imid

\* while (imid > 0 && idx[imid-1].uncomp == 0) imid--
walk_back(idx, imid, oob) ==
    IF imid > 0 /\ IdxAt(idx, imid - 1, oob).uncomp = 0
    THEN walk_back(idx, imid - 1, oob) ELSE imid

\* idx[imid] ends at or before upos
index_before(idx, upos, imid, oob) ==
    IdxAt(idx, imid, oob).pos + IdxAt(idx, imid, oob).uncomp <= upos

\* index_query at the next data entry: NULL (ERANGE) at the end of the index.
index_next(idx, upos, imid, oob) ==
    IF index_before(idx, upos, imid, oob) THEN [null |-> TRUE, imid |-> imid]
    ELSE [null |-> FALSE, imid |-> walk_back(idx, imid, oob)]

\* index_query at the data entry the search ended on.
index_select(idx, upos, imid, oob) ==
    IF index_before(idx, upos, imid, oob)
    THEN index_next(idx, upos,
                    skip_forward(idx, IF imid + 1 < Len(idx) THEN imid + 1 ELSE imid, oob),
                    oob)
    ELSE [null |-> FALSE, imid |-> walk_back(idx, imid, oob)]

\* index_query: the entry to seek to for upos, or NULL (ERANGE).
index_query(idx, upos, oob) ==
    index_select(idx, upos,
                 skip_forward(idx,
                              index_search(idx, upos, 0, Len(idx) - 1, Len(idx) \div 2, oob),
                              oob),
                 oob)

(***************************************************************************)
(* bgzf2_seek without a pool.  crash: a failed assert or a store through   *)
(* a null fp->uncomp.                                                      *)
(***************************************************************************)
Sought(fp, ret, crash) == [fp |-> fp, ret |-> ret, crash |-> crash]

\* A slip in bgzf2_seek: the partial data before upos is not skipped.
seek_decoded_block_start(d, upos, pos) ==
    IF d.ret < 0 THEN Sought(d.fp, -1, FALSE)
    ELSE IF d.fp.uncomp.null THEN Sought(d.fp, -1, TRUE)
    ELSE Sought([d.fp EXCEPT !.uncomp.pos = 0], 0, FALSE)

\* bgzf2_seek after the block was loaded (d): skip the data before upos.
seek_decoded(d, upos, pos) ==
    IF d.ret < 0 THEN Sought(d.fp, -1, FALSE)
    ELSE IF d.fp.uncomp.null THEN Sought(d.fp, -1, TRUE)
    ELSE Sought([d.fp EXCEPT !.uncomp.pos = upos - pos], 0, FALSE)

\* bgzf2_seek with the result of index_query (q, idx the entry).
seek_entry(fp, upos, q, idx) ==
    IF q.null THEN Sought(fp, -1, FALSE)
    ELSE IF ~(upos >= idx.pos) THEN Sought(fp, -1, TRUE)
    ELSE IF idx.cpos # hseek_ret(fp.hfp, idx.cpos) THEN Sought(fp, -1, FALSE)
    ELSE seek_decoded(bgzf2_decode_block([fp EXCEPT !.hfp = hseek_set(fp.hfp, idx.cpos)]),
                      upos, idx.pos)

\* bgzf2_seek after the index was loaded (ld).
seek_loaded(ld, upos, oob) ==
    IF ld.ret < 0 THEN Sought([ld.fp EXCEPT !.errcode = -ld.ret], -1, FALSE)
    ELSE seek_entry(ld.fp, upos, index_query(ld.fp.index, upos, oob),
                    IdxAt(ld.fp.index, index_query(ld.fp.index, upos, oob).imid, oob))

bgzf2_seek_st(fp, upos, oob, malloc0_null) ==
    seek_loaded(IF fp.index_null THEN load_seekable_index(fp, malloc0_null)
                ELSE Returned(fp, 0),
                upos, oob)

(***************************************************************************)
(* bgzf2_close of a writer without a pool: bgzf2_drain is bgzf2_flush,     *)
(* then the seekable index ends the file, also when the drain failed.      *)
(***************************************************************************)
bgzf2_close_st(fp) ==
    Returned(write_seekable_index(bgzf2_flush(fp).fp),
             IF bgzf2_flush(fp).ret < 0
                \/ write_seekable_index(bgzf2_flush(fp).fp).hfp.wret < 0
             THEN -1 ELSE 0)

(***************************************************************************)
(* The thread pool: workers, and the reset and the end of a queue.         *)
(***************************************************************************)
\* A worker takes the job at the head of the input queue.
hts_tpool_worker_take(q) ==
    [q EXCEPT !.input = Tail(q.input), !.processing = q.processing \cup {Head(q.input)}]

\* A worker is done with the job r: the result j goes to the output queue.
hts_tpool_worker_done(q, r, j) ==
    [q EXCEPT !.processing = q.processing \ {r},
              !.output = q.output \cup {[serial |-> r.serial, job |-> j]}]

\* The jobs of the results left in a queue, by serial.
RECURSIVE results_by_serial(_)
results_by_serial(out) ==
    IF out = {} THEN <<>>
    ELSE <<(CHOOSE r \in out : \A o \in out : r.serial <= o.serial).job>>
         \o results_by_serial(out \ {CHOOSE r \in out : \A o \in out : r.serial <= o.serial})

\* The jobs waiting in the input queue.
input_jobs(input) == [i \in 1..Len(input) |-> input[i].job]

\* bgzf2_job_free on each job of a sequence: the cleanup of a queue.
RECURSIVE free_jobs(_, _)
free_jobs(fp, js) ==
    IF js = <<>> THEN fp ELSE free_jobs(bgzf2_job_free(fp, js[1]), Tail(js))

\* hts_tpool_process_reset, first part: the jobs waiting and the results are
\* discarded and freed, and no result is handed out until the end.
hts_tpool_process_reset_begin(fp) ==
    [free_jobs(fp, input_jobs(fp.out_queue.input) \o results_by_serial(fp.out_queue.output))
        EXCEPT !.out_queue.input = <<>>, !.out_queue.output = {},
               !.out_queue.next_serial = INT_MAX]

\* hts_tpool_process_reset, second part, once no worker runs a job of the
\* queue: the new results are discarded, the serials start again.
hts_tpool_process_reset_end(fp) ==
    [free_jobs(fp, results_by_serial(fp.out_queue.output))
        EXCEPT !.out_queue.output = {},
               !.out_queue.next_serial = 0, !.out_queue.curr_serial = 0]

\* hts_tpool_process_destroy of a queue that is still referenced, once no
\* worker runs a job of it: reset, then shut down.
hts_tpool_process_destroy(fp) ==
    IF fp.out_queue.null THEN fp
    ELSE [hts_tpool_process_reset_end(hts_tpool_process_reset_begin(fp))
             EXCEPT !.out_queue.shutdown = TRUE]

\* bgzf2_thread_pool: the queue, the counters; the I/O thread is started.
bgzf2_thread_pool(fp, qsize) ==
    [fp EXCEPT !.pool = TRUE, !.out_queue = hts_tpool_process_init(qsize),
               !.flush_pending = 0, !.jobs_pending = 0]

(***************************************************************************)
(* Encoding with a thread pool.                                            *)
(***************************************************************************)
\* bgzf2_encode_func: j->comp->sz is the result of compress_block on the
\* uncomp->pos bytes of the job.  The test of the result is made on a
\* size_t, so errcode is not set.
bgzf2_encode_func(j) ==
    [j EXCEPT !.comp.sz = compress_block(SubSeq(j.uncomp.buf, 1, j.uncomp.pos),
                                         j.comp.alloc).ret,
              !.comp.buf = compress_block(SubSeq(j.uncomp.buf, 1, j.uncomp.pos),
                                          j.comp.alloc).out]

\* A slip in bgzf2_mt_writer: the data frame is written before its preface.
mt_writer_result_data_first(fp, j) ==
    bgzf2_job_free(
        [bgzf2_add_index(bgzf2_add_index(fp, 0, PZSTD_FRAME_LEN), j.uncomp.sz, j.comp.sz)
            EXCEPT !.hfp = hwrite(fp.hfp,
                                  SubSeq(j.comp.buf, 1, j.comp.sz) \o MAGIC_PZSTD
                                  \o u32_to_le(4) \o u32_to_le(j.comp.sz)),
                   !.flush_pending = fp.flush_pending + 1,
                   !.jobs_pending = fp.jobs_pending - 1],
        j)

\* bgzf2_mt_writer, one result (job j): the preface, the index entry with
\* j->uncomp->sz, the data frame; then the job is freed.  When the preface
\* or the data frame cannot be written the thread goes to err, where the
\* queue is destroyed: jobs_pending and the job are left as they are.
mt_writer_result(fp, j) ==
    IF write_pzstd_skippable(fp, j.comp.sz).hfp.wret # PZSTD_FRAME_LEN
    THEN hts_tpool_process_destroy(write_pzstd_skippable(fp, j.comp.sz))
    ELSE IF hwrite(write_pzstd_skippable(fp, j.comp.sz).hfp,
                   SubSeq(j.comp.buf, 1, j.comp.sz)).wret # j.comp.sz
    THEN hts_tpool_process_destroy(
             [bgzf2_add_index(write_pzstd_skippable(fp, j.comp.sz), j.uncomp.sz, j.comp.sz)
                 EXCEPT !.hfp = hwrite(write_pzstd_skippable(fp, j.comp.sz).hfp,
                                       SubSeq(j.comp.buf, 1, j.comp.sz))])
    ELSE
    bgzf2_job_free(
        [bgzf2_add_index(write_pzstd_skippable(fp, j.comp.sz), j.uncomp.sz, j.comp.sz)
            EXCEPT !.hfp = hwrite(write_pzstd_skippable(fp, j.comp.sz).hfp,
                                  SubSeq(j.comp.buf, 1, j.comp.sz)),
                   !.flush_pending = fp.flush_pending + 1,
                   !.jobs_pending = fp.jobs_pending - 1],
        j)

\* bgzf2_mt_writer once the queue is shut down: the queue is destroyed and
\* fp->out_queue set to NULL.
mt_writer_exit(fp) == [hts_tpool_process_destroy(fp) EXCEPT !.out_queue = NULL_QUEUE]

(***************************************************************************)
(* Decoding with a thread pool.                                            *)
(***************************************************************************)
\* bgzf2_mt_read_block after bgzf2_read_block (rb): the frame goes into
\* j->comp, and j->uncomp is grown to the size once uncompressed.
mt_read_block_read(fp, j, rb) ==
    IF rb.ret = -2
    THEN [fp |-> [fp EXCEPT !.hfp = rb.h], j |-> [j EXCEPT !.comp = rb.comp], ret |-> INT_MAX]
    ELSE IF rb.ret <= 0
    THEN [fp |-> [fp EXCEPT !.hfp = rb.h], j |-> [j EXCEPT !.comp = rb.comp], ret |-> rb.ret]
    ELSE IF rb.ret > BGZF2_MAX_BLOCK_SIZE
    THEN [fp |-> [fp EXCEPT !.hfp = rb.h], j |-> [j EXCEPT !.comp = rb.comp], ret |-> -1]
    ELSE [fp |-> [fp EXCEPT !.hfp = rb.h],
          j |-> [j EXCEPT !.comp = rb.comp,
                          !.uncomp = bgzf2_buffer_grow(j.uncomp, rb.ret),
                          !.known_size = TRUE, !.errcode = 0],
          ret |-> rb.ret]

bgzf2_mt_read_block(fp, j) == mt_read_block_read(fp, j, bgzf2_read_block(fp.hfp, j.comp))

\* bgzf2_decode_func after bgzf2_decompress_block (d).
decode_func_decompressed(j, d) ==
    [j EXCEPT !.comp = d.comp, !.uncomp = d.uncomp,
              !.errcode = IF d.ret < 0 THEN 1 ELSE j.errcode]

\* bgzf2_decode_func: the block of the job is decompressed by a worker.
bgzf2_decode_func(j) ==
    decode_func_decompressed(j, bgzf2_decompress_block(j.comp, j.uncomp,
                                                       IF j.known_size THEN j.uncomp.sz
                                                       ELSE -2))

\* bgzf2_nul_func
bgzf2_nul_func(j) == j

\* bgzf2_mt_reader freeing the job j also when its dispatch succeeded.
mt_reader_dispatched_freed(fp, j, d) ==
    IF d.blocked THEN [fp |-> fp, goto |-> "loop", blocked |-> TRUE]
    ELSE IF d.ret < 0
    THEN [fp |-> [bgzf2_job_free(fp, j) EXCEPT !.command = "CLOSE"],
          goto |-> "destroy", blocked |-> FALSE]
    ELSE [fp |-> bgzf2_job_free([fp EXCEPT !.out_queue = d.q], j),
          goto |-> "command", blocked |-> FALSE]

\* bgzf2_mt_reader after the dispatch (d) of the job j with a block: to
\* the test of fp->command, or to err when the queue is shut down.
mt_reader_dispatched(fp, j, d) ==
    IF d.blocked THEN [fp |-> fp, goto |-> "loop", blocked |-> TRUE]
    ELSE IF d.ret < 0
    THEN [fp |-> [bgzf2_job_free(fp, j) EXCEPT !.command = "CLOSE"],
          goto |-> "destroy", blocked |-> FALSE]
    ELSE [fp |-> [fp EXCEPT !.out_queue = d.q], goto |-> "command", blocked |-> FALSE]

\* bgzf2_mt_reader after the dispatch (d) of the job j that marks EOF.
mt_reader_eof_dispatched(fp, j, d) ==
    IF d.blocked THEN [fp |-> fp, goto |-> "loop", blocked |-> TRUE]
    ELSE IF d.ret < 0
    THEN [fp |-> bgzf2_job_free(fp, j), goto |-> "destroy", blocked |-> FALSE]
    ELSE IF j.errcode # 0
    THEN [fp |-> [fp EXCEPT !.out_queue = d.q], goto |-> "destroy", blocked |-> FALSE]
    ELSE [fp |-> [fp EXCEPT !.out_queue = d.q], goto |-> "eofwait", blocked |-> FALSE]

\* bgzf2_mt_reader, one pass of its loop after bgzf2_mt_read_block (rb):
\* a block is dispatched to bgzf2_decode_func; at EOF or on a failure a job
\* with hit_eof set is dispatched to bgzf2_nul_func.
mt_reader_block(rb) ==
    IF rb.ret > 0
    THEN mt_reader_dispatched(rb.fp, rb.j,
                              hts_tpool_dispatch3(rb.fp.out_queue, "bgzf2_decode_func", rb.j))
    ELSE mt_reader_eof_dispatched(rb.fp, [rb.j EXCEPT !.hit_eof = TRUE],
                                  hts_tpool_dispatch3(rb.fp.out_queue, "bgzf2_nul_func",
                                                      [rb.j EXCEPT !.hit_eof = TRUE]))

\* bgzf2_mt_reader at restart: a job with errcode and hit_eof cleared.
mt_reader_restart(fp) ==
    [fp |-> bgzf2_job_new(fp).fp,
     j |-> [bgzf2_job_new(fp).j EXCEPT !.errcode = 0, !.hit_eof = FALSE]]

\* bgzf2_mt_seek: the index is loaded if there is none.
mt_seek_load(fp, malloc0_null) ==
    IF fp.index_null THEN load_seekable_index(fp, malloc0_null) ELSE Returned(fp, 0)

\* bgzf2_mt_seek leaving in seek_to the offset in the whole data.
mt_seek_entry_absolute(fp, q, idx) ==
    IF q.null
    THEN [fp EXCEPT !.errcode = 1, !.command = "SEEK_FAIL", !.hit_eof = FALSE]
    ELSE IF hseek_ret(fp.hfp, idx.cpos) < 0
    THEN [fp EXCEPT !.errcode = 99, !.command = "SEEK_FAIL", !.hit_eof = FALSE]
    ELSE [fp EXCEPT !.hfp = hseek_set(fp.hfp, idx.cpos), !.errcode = 0,
                    !.command = "SEEK_DONE", !.hit_eof = FALSE]

\* bgzf2_mt_seek with the result of index_query (q, idx the entry): the
\* file is moved to the frame, seek_to becomes the offset in its block.
mt_seek_entry(fp, q, idx) ==
    IF q.null
    THEN [fp EXCEPT !.errcode = 1, !.command = "SEEK_FAIL", !.hit_eof = FALSE]
    ELSE IF hseek_ret(fp.hfp, idx.cpos) < 0
    THEN [fp EXCEPT !.errcode = 99, !.command = "SEEK_FAIL",
                    !.seek_to = fp.seek_to - idx.pos, !.hit_eof = FALSE]
    ELSE [fp EXCEPT !.hfp = hseek_set(fp.hfp, idx.cpos), !.errcode = 0,
                    !.command = "SEEK_DONE",
                    !.seek_to = fp.seek_to - idx.pos, !.hit_eof = FALSE]

\* bgzf2_mt_seek once the queue is reset.
mt_seek_reset(fp, oob) ==
    mt_seek_entry(fp, index_query(fp.index, fp.seek_to, oob),
                  IdxAt(fp.index, index_query(fp.index, fp.seek_to, oob).imid, oob))

\* The function of a job, run by a worker.
RunJob(r) ==
    IF r.func = "bgzf2_encode_func" THEN bgzf2_encode_func(r.job)
    ELSE IF r.func = "bgzf2_decode_func" THEN bgzf2_decode_func(r.job)
    ELSE bgzf2_nul_func(r.job)

(***************************************************************************)
(* The program.  pc is the phase of the caller: "write" on a handle open   *)
(* for write, "closed" once the file is on disk, "read" on a handle open   *)
(* for read, "crashed" after a fault.  io is the I/O thread of the handle  *)
(* and main the call the caller is in, when a thread pool is attached.     *)
(* written, calls, last and got record what the caller did and was given   *)
(* back.                                                                   *)
(***************************************************************************)
VARIABLES pc, fp, disk, written, calls, last, got, io, main

vars == <<pc, fp, disk, written, calls, last, got, io, main>>

\* No I/O thread, and no call under way.
NoThread == [pc |-> "none"]
Idle == [op |-> "none"]

\* An out-of-bounds read of an index entry yields any value, and malloc(0)
\* returns NULL or not; both matter only while the index has no entry.
OobValues ==
    {[pos |-> p, uncomp |-> u, comp |-> 0, cpos |-> 0] : p \in {0, MaxBytes + 2}, u \in {0, 1}}

UndefinedChoices(h) ==
    IF h.index = <<>> THEN OobValues \X BOOLEAN
    ELSE {<<[pos |-> 0, uncomp |-> 0, comp |-> 0, cpos |-> 0], FALSE>>}

NoCall ==
    [op |-> "none", arg |-> 0, ret |-> 0, out |-> <<>>, from |-> -1, eof |-> FALSE,
     seof |-> FALSE]

Init ==
    /\ pc = "write"
    /\ fp = bgzf2_open_w
    /\ disk = <<>>
    /\ written = 0
    /\ calls = <<>>
    /\ last = NoCall
    /\ got = <<>>
    /\ io = NoThread
    /\ main = Idle

\* bgzf2_write(fp, buf, len, can_split) with the next len bytes of the stream.
Write(len, can_split) ==
    /\ pc = "write" /\ ~fp.pool
    /\ \E w \in {bgzf2_write(fp, Bytes(written, len), can_split)} :
          /\ fp' = w.fp
          /\ last' = [NoCall EXCEPT !.op = "write", !.arg = len, !.ret = w.ret]
    /\ written' = written + len
    /\ calls' = Append(calls, [start |-> written, len |-> len, can_split |-> can_split,
                               block_size |-> fp.block_size])
    /\ UNCHANGED <<pc, disk, got, io, main>>

Flush ==
    /\ pc = "write" /\ ~fp.pool
    /\ \E f \in {bgzf2_flush(fp)} :
          /\ fp' = f.fp
          /\ last' = [NoCall EXCEPT !.op = "flush", !.ret = f.ret]
    /\ UNCHANGED <<pc, disk, written, calls, got, io, main>>

SetBlockSize(sz) ==
    /\ pc = "write" /\ ~fp.pool
    /\ \E f \in {bgzf2_set_block_size(fp, sz)} :
          /\ fp' = f.fp
          /\ last' = [NoCall EXCEPT !.op = "set_block_size", !.arg = sz, !.ret = f.ret]
    /\ UNCHANGED <<pc, disk, written, calls, got, io, main>>

\* bgzf2_close of the writer: the bytes of the file are on disk.
CloseWriter ==
    /\ pc = "write" /\ ~fp.pool
    /\ \E c \in {bgzf2_close_st(fp)} :
          /\ disk' = c.fp.hfp.data
          /\ last' = [NoCall EXCEPT !.op = "close", !.ret = c.ret]
    /\ fp' = calloc_bgzf2
    /\ pc' = "closed"
    /\ UNCHANGED <<written, calls, got, io, main>>

\* bgzf2_open(fn, "r") on the file.
OpenReader ==
    /\ pc = "closed"
    /\ fp' = bgzf2_open_r(disk)
    /\ pc' = "read"
    /\ last' = NoCall
    /\ calls' = <<>>
    /\ got' = <<>>
    /\ UNCHANGED <<disk, written, io, main>>

\* bgzf2_read(fp, buf, k).  from: the target of the seek just before, if it
\* succeeded; eof: hit_eof at the call; seof: hit_eof when that seek was called.
Read(k) ==
    /\ pc = "read" /\ ~fp.pool
    /\ \E r \in {bgzf2_read(fp, k)} :
          /\ fp' = r.fp
          /\ pc' = IF r.crash THEN "crashed" ELSE "read"
          /\ last' = [op |-> "read", arg |-> k, ret |-> r.ret, out |-> r.out,
                      from |-> IF last.op = "seek" /\ last.ret = 0 THEN last.arg ELSE -1,
                      eof |-> fp.hit_eof,
                      seof |-> (last.op = "seek" /\ last.eof)]
          /\ got' = IF got = <<-1>> THEN got ELSE got \o r.out
    /\ UNCHANGED <<disk, written, calls, io, main>>

\* bgzf2_seek(fp, u); got is void once a seek was made.
Seek(u) ==
    /\ pc = "read" /\ ~fp.pool
    /\ \E ub \in UndefinedChoices(fp) :
          \E r \in {bgzf2_seek_st(fp, u, ub[1], ub[2])} :
              /\ fp' = r.fp
              /\ pc' = IF r.crash THEN "crashed" ELSE "read"
              /\ last' = [NoCall EXCEPT !.op = "seek", !.arg = u, !.ret = r.ret,
                                        !.eof = fp.hit_eof]
    /\ got' = <<-1>>
    /\ UNCHANGED <<disk, written, calls, io, main>>

Next ==
    \/ \E len \in 0..(MaxBytes - written), can_split \in BOOLEAN :
          Len(calls) < MaxCalls /\ Write(len, can_split)
    \/ Flush
    \/ \E sz \in 1..MaxBlock : SetBlockSize(sz)
    \/ CloseWriter
    \/ OpenReader
    \/ \E k \in 1..MaxRead : Read(k)
    \/ \E u \in 0..(written + 1) : Seek(u)

Spec == Init /\ [][Next]_vars

(***************************************************************************)
(* The writer alone, up to the closed file, with more calls.               *)
(***************************************************************************)
NextWriter ==
    \/ \E len \in 0..(WriterMaxBytes - written), can_split \in BOOLEAN :
          Len(calls) < WriterMaxCalls /\ Write(len, can_split)
    \/ Flush
    \/ \E sz \in 1..WriterMaxBlock : SetBlockSize(sz)
    \/ CloseWriter

SpecWriter == Init /\ [][NextWriter]_vars

(***************************************************************************)
(* index_query on the index of a file of this writer.  The file is made of *)
(* blocks of the lengths lens, each flushed; its index is then loaded.     *)
(***************************************************************************)
\* bgzf2_write and bgzf2_flush for each block; the stream goes on at from.
RECURSIVE WriteBlocks(_, _, _)
WriteBlocks(h, from, lens) ==
    IF lens = <<>> THEN h
    ELSE WriteBlocks(bgzf2_flush(bgzf2_write(h, Bytes(from, lens[1]), FALSE).fp).fp,
                     from + lens[1], Tail(lens))

\* The bytes of the file once closed.
FileOf(lens) == bgzf2_close_st(WriteBlocks(bgzf2_open_w, 0, lens)).fp.hfp.data

RECURSIVE SumSeq(_)
SumSeq(s) == IF s = <<>> THEN 0 ELSE s[1] + SumSeq(Tail(s))

Layouts(maxBlocks, maxLen) == UNION {[1..n -> 1..maxLen] : n \in 1..maxBlocks}

InitQuery ==
    /\ pc = "query"
    /\ \E lens \in Layouts(QueryMaxBlocks, QueryMaxLen) \cup {<<>>} :
          /\ disk = FileOf(lens)
          /\ written = SumSeq(lens)
    /\ fp = load_seekable_index(bgzf2_open_r(disk), FALSE).fp
    /\ calls = <<>>
    /\ last = NoCall
    /\ got = <<>>
    /\ io = NoThread
    /\ main = Idle

\* index_query(fp, u): ret is the number of the entry returned, from 0, or
\* -1 for NULL.
Query(u) ==
    /\ pc = "query"
    /\ \E oob \in OobValues :
          \E q \in {index_query(fp.index, u, oob)} :
              last' = [NoCall EXCEPT !.op = "query", !.arg = u,
                                     !.ret = IF q.null THEN -1 ELSE q.imid]
    /\ UNCHANGED <<pc, fp, disk, written, calls, got, io, main>>

NextQuery == \E u \in 0..written : Query(u)

SpecQuery == InitQuery /\ [][NextQuery]_vars

(***************************************************************************)
(* A writer with a thread pool.  The caller's calls go pass by pass; a     *)
(* pass waits while hts_tpool_dispatch3 waits.  got holds the blocks in    *)
(* the order the caller flushed them, calls the serials of the jobs in     *)
(* the order the workers finished them.                                    *)
(***************************************************************************)
InitPoolWriter ==
    /\ pc = "write"
    /\ \E qsize \in 1..PoolMaxQsize : fp = bgzf2_thread_pool(bgzf2_open_w, qsize)
    /\ disk = <<>>
    /\ written = 0
    /\ calls = <<>>
    /\ last = NoCall
    /\ got = <<>>
    /\ io = [pc |-> "run"]
    /\ main = Idle

\* The block that a pass of the caller has dispatched, if any.
Flushed(f0, f1) ==
    IF f1.jobs_pending > f0.jobs_pending
    THEN <<SubSeq(f0.uncomp.buf, 1, f0.uncomp.pos)>> ELSE <<>>

PoolWriteCall(len, can_split) ==
    /\ pc = "write" /\ fp.pool /\ main = Idle
    /\ main' = [op |-> "write", buf |-> Bytes(written, len), r |-> 0,
                can_split |-> can_split, arg |-> len]
    /\ written' = written + len
    /\ UNCHANGED <<pc, fp, disk, calls, last, got, io>>

\* One pass of the loop of bgzf2_write.
PoolWriteStep ==
    /\ pc = "write" /\ main.op = "write"
    /\ \E n \in {bgzf2_write_iter([fp |-> fp, buf |-> main.buf, r |-> main.r,
                                   done |-> FALSE, ret |-> 0, blocked |-> FALSE],
                                  main.can_split)} :
          /\ ~n.blocked
          /\ fp' = n.fp
          /\ got' = got \o Flushed(fp, n.fp)
          /\ IF n.done
             THEN /\ main' = Idle
                  /\ last' = [NoCall EXCEPT !.op = "write", !.arg = main.arg, !.ret = n.ret]
             ELSE /\ main' = [main EXCEPT !.buf = n.buf, !.r = n.r]
                  /\ last' = last
    /\ UNCHANGED <<pc, disk, written, calls, io>>

PoolFlush ==
    /\ pc = "write" /\ fp.pool /\ main = Idle
    /\ \E f \in {bgzf2_flush(fp)} :
          /\ ~f.blocked
          /\ fp' = f.fp
          /\ got' = got \o Flushed(fp, f.fp)
          /\ last' = [NoCall EXCEPT !.op = "flush", !.ret = f.ret]
    /\ UNCHANGED <<pc, disk, written, calls, io, main>>

PoolSetBlockSize(sz) ==
    /\ pc = "write" /\ fp.pool /\ main = Idle
    /\ \E f \in {bgzf2_set_block_size(fp, sz)} :
          /\ ~f.blocked
          /\ fp' = f.fp
          /\ got' = got \o Flushed(fp, f.fp)
          /\ last' = [NoCall EXCEPT !.op = "set_block_size", !.arg = sz, !.ret = f.ret]
    /\ UNCHANGED <<pc, disk, written, calls, io, main>>

\* bgzf2_close, bgzf2_drain: the flush of the last block.  When it fails
\* (the queue is shut down: the writer thread has ended at err),
\* bgzf2_drain returns -1 at once, and bgzf2_close writes the seekable
\* index and destroys the queue before it joins the thread.
PoolDrainFlush ==
    /\ pc = "write" /\ fp.pool /\ main = Idle
    /\ \E f \in {bgzf2_flush(fp)} :
          /\ ~f.blocked
          /\ got' = got \o Flushed(fp, f.fp)
          /\ IF f.ret < 0
             THEN /\ fp' = hts_tpool_process_destroy(write_seekable_index(f.fp))
                  /\ main' = [op |-> "join", ret |-> -1]
             ELSE /\ fp' = f.fp
                  /\ main' = [op |-> "drain"]
    /\ UNCHANGED <<pc, disk, written, calls, last, io>>

\* bgzf2_drain: hts_tpool_process_flush until jobs_pending is 0, then the
\* queue is destroyed.
PoolDrainWait ==
    /\ main.op = "drain"
    /\ fp.out_queue.input = <<>> /\ fp.out_queue.processing = {}
    /\ fp.jobs_pending = 0
    /\ fp' = hts_tpool_process_destroy(fp)
    /\ main' = [op |-> "join", ret |-> 0]
    /\ UNCHANGED <<pc, disk, written, calls, last, got, io>>

\* bgzf2_drain joins the writer thread; bgzf2_close writes the seekable
\* index and joins the thread a second time, which is undefined: the call
\* returns, or the program faults with the index not yet on disk.  After a
\* drain that failed the thread is joined once, by bgzf2_close, which
\* returns -1.  io keeps the number of calls of pthread_join on the thread.
PoolJoin ==
    /\ main.op = "join" /\ io.pc \in {"exit", "failed"}
    /\ \E returns \in BOOLEAN :
          IF main.ret < 0
          THEN /\ disk' = fp.hfp.data
               /\ pc' = "closed"
               /\ last' = [NoCall EXCEPT !.op = "close", !.ret = -1]
          ELSE IF returns
          THEN /\ disk' = write_seekable_index(fp).hfp.data
               /\ pc' = "closed"
               /\ last' = [NoCall EXCEPT !.op = "close",
                              !.ret = IF write_seekable_index(fp).hfp.wret < 0
                                      THEN -1 ELSE 0]
          ELSE /\ disk' = fp.hfp.data
               /\ pc' = "crashed"
               /\ last' = last
    /\ fp' = calloc_bgzf2
    /\ io' = [pc |-> "joined", joins |-> IF main.ret < 0 THEN 1 ELSE 2]
    /\ main' = Idle
    /\ UNCHANGED <<written, calls, got>>

\* A worker of the pool starts the next job.
WorkerTake ==
    /\ fp.pool /\ ~fp.out_queue.null
    /\ fp.out_queue.input # <<>>
    /\ Cardinality(fp.out_queue.processing) < PoolWorkers
    /\ fp' = [fp EXCEPT !.out_queue = hts_tpool_worker_take(fp.out_queue)]
    /\ UNCHANGED <<pc, disk, written, calls, last, got, io, main>>

\* A worker ends its job.
WorkerDone ==
    /\ fp.pool /\ ~fp.out_queue.null
    /\ \E r \in fp.out_queue.processing :
          /\ fp' = [fp EXCEPT !.out_queue = hts_tpool_worker_done(fp.out_queue, r, RunJob(r))]
          /\ calls' = IF fp.is_write THEN Append(calls, r.serial) ELSE calls
    /\ UNCHANGED <<pc, disk, written, last, got, io, main>>

\* bgzf2_mt_writer: the next result in order is written to the file; the
\* thread ends with (void *)-1 when that fails.
MtWriterResult ==
    /\ io.pc = "run" /\ fp.is_write
    /\ \E r \in {hts_tpool_next_result_wait(fp.out_queue)} :
          /\ ~r.blocked /\ ~r.null
          /\ \E f \in {mt_writer_result([fp EXCEPT !.out_queue = r.q], r.j)} :
                /\ fp' = f
                /\ io' = IF f.hfp.wret < 0 THEN [pc |-> "failed"] ELSE io
    /\ UNCHANGED <<pc, disk, written, calls, last, got, main>>

\* bgzf2_mt_writer: the queue is shut down; the thread ends.
MtWriterExit ==
    /\ io.pc = "run" /\ fp.is_write
    /\ fp.out_queue.shutdown
    /\ fp' = mt_writer_exit(fp)
    /\ io' = [pc |-> "exit"]
    /\ UNCHANGED <<pc, disk, written, calls, last, got, main>>

NextPoolWriter ==
    \/ \E len \in 0..(PoolMaxBytes - written), can_split \in BOOLEAN :
          PoolWriteCall(len, can_split)
    \/ PoolWriteStep
    \/ PoolFlush
    \/ \E sz \in 1..PoolMaxBlock : PoolSetBlockSize(sz)
    \/ PoolDrainFlush
    \/ PoolDrainWait
    \/ PoolJoin
    \/ WorkerTake
    \/ WorkerDone
    \/ MtWriterResult
    \/ MtWriterExit

SpecPoolWriter == InitPoolWriter /\ [][NextPoolWriter]_vars

(***************************************************************************)
(* A writer, with a thread pool or not, on a device that accepts a number  *)
(* of hwrite calls and fails from then on (left; -1: it never fails), and  *)
(* the reader of the file it leaves.  The threads of the pool, the writer  *)
(* thread and the caller inside bgzf2_write or bgzf2_close go on running   *)
(* whenever they can.  A call that fails may leave one more entry in the   *)
(* index, use up a job number, or move the position of the buffer past     *)
(* its end; the caller makes calls while each of these is below            *)
(* FaultyMaxCount.                                                         *)
(***************************************************************************)
InitFaulty ==
    /\ pc = "write"
    /\ \E pool \in BOOLEAN, left \in -1..FaultyMaxLeft :
          /\ fp = [(IF pool THEN bgzf2_thread_pool(bgzf2_open_w, PoolMaxQsize)
                    ELSE bgzf2_open_w) EXCEPT !.hfp.left = left]
          /\ io = IF pool THEN [pc |-> "run"] ELSE NoThread
    /\ disk = <<>>
    /\ written = 0
    /\ calls = <<>>
    /\ last = NoCall
    /\ got = <<>>
    /\ main = Idle

\* The counters that a failed call may raise are below the bound.
CallsGoOn ==
    /\ Len(fp.index) < FaultyMaxCount
    /\ fp.job_num < FaultyMaxCount
    /\ fp.uncomp.pos < FaultyMaxCount

SpecFaulty ==
    /\ InitFaulty
    /\ [][\/ \E len \in 0..(MaxBytes - written), can_split \in BOOLEAN :
               CallsGoOn /\ Len(calls) < MaxCalls /\ Write(len, can_split)
          \/ CallsGoOn /\ Flush
          \/ \E sz \in 1..MaxBlock : CallsGoOn /\ SetBlockSize(sz)
          \/ CloseWriter
          \/ OpenReader
          \/ \E k \in 1..MaxRead : CallsGoOn /\ Read(k)
          \/ \E u \in 0..(written + 1) : CallsGoOn /\ Seek(u)
          \/ \E len \in 0..(PoolMaxBytes - written), can_split \in BOOLEAN :
               CallsGoOn /\ PoolWriteCall(len, can_split)
          \/ PoolWriteStep
          \/ CallsGoOn /\ PoolFlush
          \/ \E sz \in 1..PoolMaxBlock : CallsGoOn /\ PoolSetBlockSize(sz)
          \/ PoolDrainFlush
          \/ PoolDrainWait
          \/ PoolJoin
          \/ WorkerTake
          \/ WorkerDone
          \/ MtWriterResult
          \/ MtWriterExit]_vars
    /\ WF_vars(PoolWriteStep) /\ WF_vars(PoolDrainWait) /\ WF_vars(PoolJoin)
    /\ WF_vars(WorkerTake) /\ WF_vars(WorkerDone)
    /\ WF_vars(MtWriterResult) /\ WF_vars(MtWriterExit)

(***************************************************************************)
(* A reader without a pool on a file of the writer that was altered, on a  *)
(* stream that can seek or not (pipe).  calls holds the alteration: del    *)
(* bytes at offset at are replaced by the bytes ins.  The alterations are  *)
(* a byte of the seekable index frame (footer magic, flags, number of      *)
(* frames, header magic, header length), a file cut to fewer than 9 bytes, *)
(* one or two skippable frames put in front of a block or of the index     *)
(* (magic 0x184D2A50 with a length other than 4, 0x184D2A51, 0x184D2A5F,   *)
(* payload bytes 99), and such a frame cut short with the rest of the      *)
(* file; the seekable index frame replaced by one with the checksum flag   *)
(* (bit 7) set and entries of 12 bytes: the 8 bytes of the entry and a     *)
(* checksum of four bytes 7; the content size in the header of one data    *)
(* frame raised by one, so that the frame does not decompress; and a       *)
(* preface with a data frame of content size 0 put in front of a block;    *)
(* and one data frame written without the content size in its header, as   *)
(* a streaming compressor writes it (one byte less, in the preface and in  *)
(* the index too).                                                         *)
(***************************************************************************)
InitDamaged ==
    /\ pc = "read"
    /\ \E lens \in Layouts(DamagedMaxBlocks, DamagedMaxLen), pipe \in BOOLEAN :
          LET file == FileOf(lens)
              L == Len(file)
              N == 2 * Len(lens)
              base == L - (17 + 8 * N)
              junk(m, n) == <<m, 42, 77, 24>> \o u32_to_le(n) \o [i \in 1..n |-> 99]
              Runs == {junk(m, n) : m \in {80, 81, 95}, n \in {0, 3}}
                      \cup {junk(81, 3) \o junk(80, 0), junk(80, 3) \o junk(95, 3)}
              start(k) == 18 * k + SumSeq(SubSeq(lens, 1, k))
              Damages ==
                  {[kind |-> "none", at |-> 0, del |-> 0, ins |-> <<>>]}
                  \cup {[kind |-> "footer_magic", at |-> L - 1, del |-> 1, ins |-> <<0>>]}
                  \cup {[kind |-> "flags_reserved", at |-> L - 5, del |-> 1, ins |-> <<f>>] :
                            f \in {4, 8, 16, 32, 64, 5}}
                  \cup {[kind |-> "flags_allowed", at |-> L - 5, del |-> 1, ins |-> <<f>>] :
                            f \in {1, 2, 3}}
                  \cup {[kind |-> "nframes", at |-> L - 9, del |-> 1, ins |-> <<N + 1>>]}
                  \cup {[kind |-> "header_magic", at |-> base, del |-> 1, ins |-> <<95>>]}
                  \cup {[kind |-> "header_len", at |-> base + 4, del |-> 1,
                         ins |-> <<8 * N + 10>>]}
                  \cup {[kind |-> "short", at |-> k, del |-> L - k, ins |-> <<>>] :
                            k \in {0, 8}}
                  \cup {[kind |-> "skip", at |-> start(k), del |-> 0, ins |-> r] :
                            k \in 0..Len(lens), r \in Runs}
                  \cup {[kind |-> "skip_cut", at |-> start(k), del |-> L - start(k),
                         ins |-> SubSeq(junk(81, 3), 1, c)] :
                            k \in 0..Len(lens), c \in {5, 9}}
                  \cup {[kind |-> "chksum", at |-> base, del |-> 17 + 8 * N,
                         ins |-> <<94, 42, 77, 24>> \o u32_to_le(12 * N + 9)
                                 \o [i \in 1..(12 * N) |->
                                        IF ((i - 1) % 12) < 8
                                        THEN file[base + 9 + 8 * ((i - 1) \div 12)
                                                  + ((i - 1) % 12)]
                                        ELSE 7]
                                 \o u32_to_le(N) \o <<128, 177, 234, 146, 143>>]}
                  \cup {[kind |-> "frame_usize", at |-> start(k - 1) + 17, del |-> 1,
                         ins |-> <<lens[k] + 1>>] : k \in 1..Len(lens)}
                  \cup {[kind |-> "empty_frame", at |-> start(k - 1), del |-> 0,
                         ins |-> MAGIC_PZSTD \o u32_to_le(4) \o u32_to_le(6)
                                 \o MAGIC_ZSTD \o <<1, 0>>] : k \in 1..Len(lens)}
                  \cup {[kind |-> "no_usize", at |-> start(k - 1), del |-> L - start(k - 1),
                         ins |-> [i \in 1..(L - start(k - 1) - 1) |->
                                    IF i = 9 \/ i = base + 16 * k - start(k - 1)
                                    THEN lens[k] + 5
                                    ELSE IF i = 17 THEN 0
                                    ELSE file[start(k - 1) + (IF i < 18 THEN i ELSE i + 1)]]] :
                            k \in 1..Len(lens)}
          IN  \E dmg \in Damages :
                /\ disk = SubSeq(file, 1, dmg.at) \o dmg.ins
                          \o SubSeq(file, dmg.at + dmg.del + 1, L)
                /\ written = SumSeq(lens)
                /\ calls = <<dmg>>
                /\ fp = [bgzf2_open_r(SubSeq(file, 1, dmg.at) \o dmg.ins
                                      \o SubSeq(file, dmg.at + dmg.del + 1, L))
                            EXCEPT !.hfp.pipe = pipe]
    /\ last = NoCall
    /\ got = <<>>
    /\ io = NoThread
    /\ main = Idle

SpecDamaged ==
    /\ InitDamaged
    /\ [][\/ \E k \in 1..MaxRead : CallsGoOn /\ Read(k)
          \/ \E u \in 0..(written + 1) : CallsGoOn /\ Seek(u)]_vars

(***************************************************************************)
(* A reader with a thread pool on a file of the writer.  io is the reader  *)
(* thread, bgzf2_mt_reader, with its job j; main the call of the caller;   *)
(* calls the calls made so far.  The caller reads and seeks: no command    *)
(* CLOSE is sent, and the queue is never shut down.                        *)
(***************************************************************************)
InitPoolReader ==
    /\ pc = "read"
    /\ \E lens \in Layouts(ReaderMaxBlocks, ReaderMaxLen), qsize \in 1..PoolMaxQsize :
          /\ disk = FileOf(lens)
          /\ written = SumSeq(lens)
          /\ fp = mt_reader_restart(bgzf2_thread_pool(bgzf2_open_r(FileOf(lens)), qsize)).fp
          /\ io = [pc |-> "loop",
                   j |-> mt_reader_restart(bgzf2_thread_pool(bgzf2_open_r(FileOf(lens)),
                                                             qsize)).j]
    /\ calls = <<>>
    /\ last = NoCall
    /\ got = <<>>
    /\ main = Idle

\* The next frame is read and dispatched.
ReaderBlock ==
    /\ io.pc = "loop"
    /\ \E rb \in {bgzf2_read_block(fp.hfp, io.j.comp)} :
          \E b \in {mt_reader_block(mt_read_block_read(fp, io.j, rb))} :
              /\ ~b.blocked
              /\ fp' = b.fp
              /\ io' = [pc |-> b.goto, j |-> calloc_job]
    /\ UNCHANGED <<pc, disk, written, calls, last, got, main>>

\* The test of fp->command after a dispatch; without a command, the job for
\* the next block.
ReaderCommand ==
    /\ io.pc = "command"
    /\ IF fp.command = "SEEK" THEN fp' = fp /\ io' = [io EXCEPT !.pc = "seek"]
       ELSE IF fp.command = "CLOSE" THEN fp' = fp /\ io' = [io EXCEPT !.pc = "destroy"]
       ELSE /\ fp' = bgzf2_job_new(fp).fp
            /\ io' = [pc |-> "loop", j |-> bgzf2_job_new(fp).j]
    /\ UNCHANGED <<pc, disk, written, calls, last, got, main>>

\* After EOF the thread waits for a command.
ReaderEofWait ==
    /\ io.pc = "eofwait"
    /\ fp.command \in {"SEEK", "CLOSE"}
    /\ io' = [io EXCEPT !.pc = IF fp.command = "SEEK" THEN "seek" ELSE "destroy"]
    /\ UNCHANGED <<pc, fp, disk, written, calls, last, got, main>>

\* bgzf2_mt_seek: the index is loaded, the reset of the queue starts.  When
\* the index cannot be loaded the answer SEEK_FAIL is stored, the function
\* returns before its pthread_cond_signal, and the thread goes to restart.
ReaderSeek ==
    /\ io.pc = "seek"
    /\ \E malloc0_null \in BOOLEAN :
          \E ld \in {mt_seek_load(fp, malloc0_null)} :
              IF ld.ret < 0
              THEN \E f \in {[ld.fp EXCEPT !.errcode = -ld.ret, !.command = "SEEK_FAIL"]} :
                       /\ fp' = mt_reader_restart(f).fp
                       /\ io' = [pc |-> "loop", j |-> mt_reader_restart(f).j]
              ELSE /\ fp' = hts_tpool_process_reset_begin(ld.fp)
                   /\ io' = [io EXCEPT !.pc = "seek_reset"]
    /\ UNCHANGED <<pc, disk, written, calls, last, got, main>>

\* bgzf2_mt_seek: the queue is reset; index_query, hseek, the answer, and
\* pthread_cond_signal(&fp->command_c), which wakes the caller waiting in
\* bgzf2_seek; then the thread is at restart, with a job for the next block.
ReaderSeekDone ==
    /\ io.pc = "seek_reset"
    /\ fp.out_queue.processing = {}
    /\ \E oob \in OobValues :
          \E f \in {mt_seek_reset(hts_tpool_process_reset_end(fp), oob)} :
              /\ fp' = mt_reader_restart(f).fp
              /\ io' = [pc |-> "loop", j |-> mt_reader_restart(f).j]
    /\ main' = IF main.op = "seek" THEN [main EXCEPT !.woken = TRUE] ELSE main
    /\ UNCHANGED <<pc, disk, written, calls, last, got>>

\* The end of a pass (n) of bgzf2_read: the call returns, or goes on with
\* the next pass.
PoolReadPass(n, arg, from, seof) ==
    /\ ~n.blocked
    /\ fp' = n.fp
    /\ IF n.done
       THEN /\ main' = Idle
            /\ last' = [op |-> "read", arg |-> arg, ret |-> n.ret, out |-> n.out,
                        from |-> from, eof |-> FALSE, seof |-> seof]
            /\ pc' = IF n.crash THEN "crashed" ELSE pc
            /\ got' = IF got = <<-1>> THEN got ELSE got \o n.out
       ELSE /\ main' = [op |-> "read", arg |-> arg, buf_sz |-> n.buf_sz, out |-> n.out,
                        from |-> from, seof |-> seof]
            /\ last' = last
            /\ pc' = pc
            /\ got' = got

\* bgzf2_read(fp, buf, k) is called: 0 once hit_eof is set, else the first
\* pass of its loop.
PoolReadCall(k) ==
    /\ pc = "read" /\ fp.pool /\ main = Idle
    /\ PoolReadPass(IF fp.hit_eof THEN read_start(fp, k)
                    ELSE bgzf2_read_iter(read_start(fp, k)),
                    k,
                    IF last.op = "seek" /\ last.ret = 0 THEN last.arg ELSE -1,
                    last.op = "seek" /\ last.eof)
    /\ calls' = Append(calls, "read")
    /\ UNCHANGED <<disk, written, io>>

\* A further pass of the loop of bgzf2_read.
PoolReadStep ==
    /\ pc = "read" /\ main.op = "read"
    /\ PoolReadPass(bgzf2_read_iter([fp |-> fp, buf_sz |-> main.buf_sz, out |-> main.out,
                                     done |-> FALSE, ret |-> 0, crash |-> FALSE,
                                     blocked |-> FALSE]),
                    main.arg, main.from, main.seof)
    /\ UNCHANGED <<disk, written, calls, io>>

\* bgzf2_seek(fp, u): the command goes to the reader thread; got is void
\* once a seek was made.
PoolSeekCall(u) ==
    /\ pc = "read" /\ fp.pool /\ main = Idle
    /\ fp' = [fp EXCEPT !.command = "SEEK", !.seek_to = u,
                        !.out_queue = hts_tpool_wake_dispatch(fp.out_queue)]
    /\ main' = [op |-> "seek", arg |-> u, eof |-> fp.hit_eof, woken |-> FALSE]
    /\ calls' = Append(calls, "seek")
    /\ got' = <<-1>>
    /\ UNCHANGED <<pc, disk, written, last, io>>

\* bgzf2_seek returns once it wakes in pthread_cond_wait (main.woken: on
\* the signal of the reader thread; else a wakeup without a signal, which
\* may never come) and finds the answer of the reader thread.
PoolSeekReturn ==
    /\ main.op = "seek"
    /\ fp.command \in {"SEEK_DONE", "SEEK_FAIL"}
    /\ last' = [NoCall EXCEPT !.op = "seek", !.arg = main.arg,
                              !.ret = IF fp.command = "SEEK_FAIL" THEN -1 ELSE 0,
                              !.eof = main.eof]
    /\ fp' = [fp EXCEPT !.command = "NONE"]
    /\ main' = Idle
    /\ UNCHANGED <<pc, disk, written, calls, got, io>>

NextPoolReader ==
    \/ ReaderBlock
    \/ ReaderCommand
    \/ ReaderEofWait
    \/ ReaderSeek
    \/ ReaderSeekDone
    \/ WorkerTake
    \/ WorkerDone
    \/ \E k \in 1..MaxRead : Len(calls) < ReaderMaxCalls /\ PoolReadCall(k)
    \/ PoolReadStep
    \/ \E u \in 0..written : Len(calls) < ReaderMaxCalls /\ PoolSeekCall(u)
    \/ PoolSeekReturn

SpecPoolReader == InitPoolReader /\ [][NextPoolReader]_vars

(***************************************************************************)
(* decode of bgzip2 with threads and a range: the pool is attached, which  *)
(* starts the reader thread; then the caller itself loads the seekable     *)
(* index, seeks to the start of the range, and reads.                      *)
(***************************************************************************)
\* load_seekable_index(fp_in) called by the caller while the reader thread
\* runs: both use the file handle without a lock.  The call takes effect
\* between two steps of the reader thread, or the program faults.
DecodeLoadIndex ==
    /\ pc = "read" /\ fp.pool /\ main = Idle /\ calls = <<>>
    /\ \E faults \in BOOLEAN :
          \E ld \in {load_seekable_index(fp, FALSE)} :
              /\ fp' = IF faults THEN fp ELSE ld.fp
              /\ pc' = IF faults THEN "crashed" ELSE "read"
              /\ last' = [NoCall EXCEPT !.op = "load_seekable_index", !.ret = ld.ret]
    /\ calls' = <<"load">>
    /\ UNCHANGED <<disk, written, got, io, main>>

SpecDecode ==
    /\ InitPoolReader
    /\ [][\/ ReaderBlock
          \/ ReaderCommand
          \/ ReaderEofWait
          \/ ReaderSeek
          \/ ReaderSeekDone
          \/ WorkerTake
          \/ WorkerDone
          \/ DecodeLoadIndex
          \/ \E u \in 0..written : calls = <<"load">> /\ PoolSeekCall(u)
          \/ PoolSeekReturn
          \/ \E k \in 1..MaxRead :
               Len(calls) \in 2..(ReaderMaxCalls - 1) /\ PoolReadCall(k)
          \/ PoolReadStep]_vars

(***************************************************************************)
(* Readers with and without a thread pool on the altered files.  The       *)
(* caller reads the file as it is opened, or attaches a thread pool first  *)
(* (here on a stream that can seek) and then makes up to DamagedMaxCalls   *)
(* calls.                                                                  *)
(***************************************************************************)
\* bgzf2_read_zero_copy(fp, &buf, k), with or without a pool.
ReadZeroCopy(k) ==
    /\ pc = "read" /\ main = Idle
    /\ \E r \in {bgzf2_read_zero_copy(fp, k)} :
          /\ ~r.blocked
          /\ fp' = r.fp
          /\ last' = [op |-> "read_zero_copy", arg |-> k, ret |-> r.ret, out |-> r.out,
                      from |-> IF last.op = "seek" /\ last.ret = 0 THEN last.arg ELSE -1,
                      eof |-> fp.hit_eof,
                      seof |-> (last.op = "seek" /\ last.eof)]
          /\ got' = IF got = <<-1>> THEN got ELSE got \o r.out
    /\ calls' = IF fp.pool THEN Append(calls, "read") ELSE calls
    /\ UNCHANGED <<pc, disk, written, io, main>>

\* bgzf2_thread_pool(fp, pool, qsize) on the handle just opened: the
\* reader thread starts.
AttachPool ==
    /\ pc = "read" /\ ~fp.pool /\ last = NoCall /\ io = NoThread
    /\ \E qsize \in 1..PoolMaxQsize :
          /\ fp' = mt_reader_restart(bgzf2_thread_pool(fp, qsize)).fp
          /\ io' = [pc |-> "loop", j |-> mt_reader_restart(bgzf2_thread_pool(fp, qsize)).j]
    /\ UNCHANGED <<pc, disk, written, calls, last, got, main>>

\* bgzf2_mt_reader leaves: hts_tpool_process_destroy(fp->out_queue), and
\* the thread ends.
ReaderDestroy ==
    /\ io.pc = "destroy"
    /\ fp.out_queue.processing = {}
    /\ fp' = hts_tpool_process_destroy(fp)
    /\ io' = [io EXCEPT !.pc = "exit"]
    /\ UNCHANGED <<pc, disk, written, calls, last, got, main>>

SpecDamagedPool ==
    /\ InitDamaged
    /\ [][\/ \E k \in 1..MaxRead : CallsGoOn /\ Read(k)
          \/ \E u \in 0..(written + 1) : CallsGoOn /\ Seek(u)
          \/ \E k \in 1..MaxRead :
               CallsGoOn /\ Len(calls) <= DamagedMaxCalls /\ ReadZeroCopy(k)
          \/ ~fp.hfp.pipe /\ AttachPool
          \/ ReaderBlock
          \/ ReaderCommand
          \/ ReaderEofWait
          \/ ReaderSeek
          \/ ReaderSeekDone
          \/ ReaderDestroy
          \/ WorkerTake
          \/ WorkerDone
          \/ \E k \in 1..MaxRead : Len(calls) <= DamagedMaxCalls /\ PoolReadCall(k)
          \/ PoolReadStep
          \/ \E u \in 0..(written + 1) : Len(calls) <= DamagedMaxCalls /\ PoolSeekCall(u)
          \/ PoolSeekReturn]_vars

(***************************************************************************)
(* One bgzf2_seek of a reader with a thread pool on the altered files,     *)
(* sent at any moment after the pool is attached.  The reader thread and   *)
(* the workers go on running whenever they can; the caller waiting in      *)
(* bgzf2_seek goes on once it was signalled.  The weak fairness of the     *)
(* reader thread is written out: it is infinitely often unable to take a   *)
(* step (every step of it changes io), or takes infinitely many.           *)
(***************************************************************************)
SpecSeek ==
    /\ InitDamaged
    /\ [][\/ AttachPool
          \/ ReaderBlock
          \/ ReaderCommand
          \/ ReaderEofWait
          \/ ReaderSeek
          \/ ReaderSeekDone
          \/ ReaderDestroy
          \/ WorkerTake
          \/ WorkerDone
          \/ \E u \in 0..(written + 1) : Len(calls) = 1 /\ PoolSeekCall(u)
          \/ PoolSeekReturn]_vars
    /\ \/ []<>~((io.pc = "loop"
                    /\ ~hts_tpool_dispatch3(fp.out_queue, "", calloc_job).blocked)
                 \/ (io.pc \in {"command", "seek"})
                 \/ (io.pc = "eofwait" /\ fp.command \in {"SEEK", "CLOSE"})
                 \/ (io.pc \in {"seek_reset", "destroy"}
                       /\ fp.out_queue.processing = {}))
       \/ []<><<io' # io>>_vars
    /\ WF_vars(WorkerTake) /\ WF_vars(WorkerDone)
    /\ WF_vars(main.op = "seek" /\ main.woken /\ PoolSeekReturn)

(***************************************************************************)
(* Properties of the program without a thread pool.                        *)
(***************************************************************************)
\* The payloads of the data frames of a file, in file order.
RECURSIVE DataFrames(_, _)
DataFrames(bytes, off) ==
    IF off + 12 > Len(bytes) \/ SubSeq(bytes, off + 1, off + 4) # MAGIC_PZSTD THEN <<>>
    ELSE LET csize == le_to_u32(SubSeq(bytes, off + 9, off + 12))
         IN  <<ZSTD_payload(SubSeq(bytes, off + 13, off + 12 + csize))>>
             \o DataFrames(bytes, off + 12 + csize)

\* C1: without a pool, reading the closed file from its start until
\* bgzf2_read returns 0 yields exactly the bytes written, in order: what was
\* read so far is always a prefix of the stream, and it is the whole stream
\* once a read has returned 0; reading alone never faults.
C1_RoundTrip ==
    /\ (pc = "read" /\ got # <<-1>>) =>
          /\ Len(got) <= written
          /\ got = Bytes(0, Len(got))
          /\ (last.op = "read" /\ last.ret < last.arg) => got = Bytes(0, written)
    /\ pc = "crashed" => got = <<-1>>

C1_Witness ==
    /\ pc = "read" /\ last.op = "read" /\ last.ret = 0
    /\ written = MaxBytes /\ got = Bytes(0, MaxBytes)
    /\ Len(DataFrames(disk, 0)) >= 2

\* C3: without a pool and before EOF was hit, bgzf2_seek(u) with
\* 0 <= u < total returns 0, and the read that follows returns the bytes
\* B[u .. min(u+k, total)).
C3_SeekExact ==
    /\ (last.op = "seek" /\ last.arg < written /\ ~last.eof) => (last.ret = 0 /\ pc = "read")
    /\ (last.op = "read" /\ last.from >= 0 /\ last.from < written /\ ~last.seof) =>
          /\ last.ret = Min(last.arg, written - last.from)
          /\ last.out = Bytes(last.from, Min(last.arg, written - last.from))

C3_Witness ==
    /\ last.op = "read" /\ last.from = 1 /\ ~last.seof
    /\ last.ret = 2 /\ last.out = <<1, 2>>
    /\ Len(DataFrames(disk, 0)) >= 2

\* C6 (as claimed): after the file was read to EOF, bgzf2_seek(0) succeeds
\* and the read that follows returns the first bytes of the stream.
C6_SeekAfterEOF ==
    /\ (last.op = "seek" /\ last.arg = 0 /\ last.eof /\ written > 0) => last.ret = 0
    /\ (last.op = "read" /\ last.from = 0 /\ last.seof /\ written > 0) =>
          /\ last.ret = Min(last.arg, written)
          /\ last.out = Bytes(0, Min(last.arg, written))

\* C7 (as claimed): bgzf2_seek(total) returns 0 and the next read returns 0;
\* bgzf2_seek(u) with u > total fails.
C7_SeekToEnd ==
    written > 0 =>
        /\ (last.op = "seek" /\ last.arg = written) => last.ret = 0
        /\ (last.op = "read" /\ last.from = written) => last.ret = 0
        /\ (last.op = "seek" /\ last.arg > written) => last.ret = -1

\* The data entry of the index that holds byte u of the stream.
DataEntry(idx, u) ==
    CHOOSE i \in 1..Len(idx) :
        idx[i].uncomp > 0 /\ idx[i].pos <= u /\ u < idx[i].pos + idx[i].uncomp

\* C8: on a loaded index of (preface, data) pairs and for u in [0, total),
\* index_query returns the preface entry just before the one data entry
\* that holds u: its pos is at most u, u - pos is less than the size of the
\* data entry, and its cpos is the offset in the file of that preface frame,
\* whose data frame holds the bytes of the block.
C8_IndexQuery ==
    (last.op = "query" /\ last.arg < written) =>
        /\ last.ret >= 0
        /\ last.ret + 2 = DataEntry(fp.index, last.arg)
        /\ fp.index[last.ret + 1].uncomp = 0
        /\ fp.index[last.ret + 1].pos <= last.arg
        /\ last.arg - fp.index[last.ret + 1].pos < fp.index[last.ret + 2].uncomp
        /\ DataFrames(disk, fp.index[last.ret + 1].cpos)[1]
              = Bytes(fp.index[last.ret + 2].pos, fp.index[last.ret + 2].uncomp)

C8_Witness ==
    /\ last.op = "query" /\ last.arg = 4 /\ last.ret = 4
    /\ Len(fp.index) = 8
    /\ fp.index[6].pos = 3 /\ fp.index[6].uncomp = 2

\* C9 (as claimed): the bytes of a bgzf2_write with can_split = 0 are all in
\* one data frame, and that frame holds exactly these bytes when their
\* number is at least the block size.
C9_NoSplit ==
    pc = "closed" =>
        \A i \in 1..Len(calls) :
            (~calls[i].can_split /\ calls[i].len > 0) =>
                \E f \in 1..Len(DataFrames(disk, 0)) :
                    LET frame == DataFrames(disk, 0)[f]
                        mine == Bytes(calls[i].start, calls[i].len)
                    IN  /\ \A b \in 1..Len(mine) : \E x \in 1..Len(frame) : frame[x] = mine[b]
                        /\ calls[i].len >= calls[i].block_size => frame = mine

\* C10 (as claimed): bgzf2_write returns the number of bytes written.
C10_WriteReturn ==
    (last.op = "write" /\ last.ret >= 0) => last.ret = last.arg

\* C11: every bgzf2_close of a writer that returns 0 leaves the seekable
\* index frame as the last bytes of the file, after the bytes written
\* before: magic 0x184D2A5E, the payload length 8N + 9, the N entries
\* (comp, uncomp) in the order they were appended (those of the handle, then
\* the preface and data entries of the block the close flushed), N, a byte
\* of flags 0, and magic 0x8F92EAB1; N is 0 when no byte was written.
C11_CloseIndexLast ==
    [][(pc = "write" /\ pc' = "closed" /\ last'.op = "close" /\ last'.ret = 0) =>
        LET L == Len(disk')
            N == le_to_u32(SubSeq(disk', L - 8, L - 5))
            base == L - (17 + 8 * N)
            word(k) == SubSeq(disk', base + 4 * k + 1, base + 4 * k + 4)
            old == Len(fp.index)
        IN  /\ L >= 17 /\ base >= Len(fp.hfp.data)
            /\ SubSeq(disk', 1, Len(fp.hfp.data)) = fp.hfp.data
            /\ word(0) = MAGIC_SEEKABLE
            /\ word(1) = u32_to_le(8 * N + 9)
            /\ N = old + (IF fp.uncomp.pos > 0 THEN 2 ELSE 0)
            /\ \A i \in 1..old :
                  /\ word(2 * i) = u32_to_le(fp.index[i].comp)
                  /\ word(2 * i + 1) = u32_to_le(fp.index[i].uncomp)
            /\ fp.uncomp.pos > 0 =>
                  /\ word(2 * N - 2) = u32_to_le(PZSTD_FRAME_LEN)
                  /\ word(2 * N - 1) = u32_to_le(0)
                  /\ word(2 * N) = u32_to_le(base - Len(fp.hfp.data) - PZSTD_FRAME_LEN)
                  /\ word(2 * N + 1) = u32_to_le(fp.uncomp.pos)
            /\ word(2 * N + 2) = u32_to_le(N)
            /\ disk'[L - 4] = 0
            /\ SubSeq(disk', L - 3, L) = MAGIC_SEEKABLE_FOOTER
            /\ written = 0 => (N = 0 /\ L = 17)]_vars

C11_Witness ==
    /\ pc = "closed" /\ last.op = "close" /\ last.ret = 0
    /\ Len(DataFrames(disk, 0)) >= 2
    /\ SubSeq(disk, Len(disk) - 3, Len(disk)) = MAGIC_SEEKABLE_FOOTER

\* C20: without a pool, a bgzf2_flush with bytes in the buffer appends to
\* the file exactly one preface of 12 bytes (magic 0x184D2A50, length 4, the
\* compressed size) and one data frame of that size holding the bytes of
\* the buffer, appends the index entries (0, 12) and (bytes flushed,
\* compressed size), and sets uncomp.pos to 0; with an empty buffer it
\* writes nothing and appends nothing.
C20_FlushFrames ==
    [][(pc = "write" /\ pc' = "write" /\ ~fp.pool /\ last'.op = "flush"
        /\ written' = written) =>
        LET added == SubSeq(fp'.hfp.data, Len(fp.hfp.data) + 1, Len(fp'.hfp.data))
            csz == Len(added) - PZSTD_FRAME_LEN
        IN  /\ SubSeq(fp'.hfp.data, 1, Len(fp.hfp.data)) = fp.hfp.data
            /\ IF fp.uncomp.pos > 0
               THEN /\ csz > 0
                    /\ SubSeq(added, 1, PZSTD_FRAME_LEN)
                          = MAGIC_PZSTD \o u32_to_le(4) \o u32_to_le(csz)
                    /\ SubSeq(added, PZSTD_FRAME_LEN + 1, PZSTD_FRAME_LEN + 4) = MAGIC_ZSTD
                    /\ DataFrames(added, 0) = <<SubSeq(fp.uncomp.buf, 1, fp.uncomp.pos)>>
                    /\ fp'.index = fp.index
                          \o <<[pos |-> 0, uncomp |-> 0, comp |-> PZSTD_FRAME_LEN, cpos |-> 0],
                               [pos |-> 0, uncomp |-> fp.uncomp.pos, comp |-> csz, cpos |-> 0]>>
                    /\ fp'.uncomp.pos = 0
               ELSE /\ added = <<>>
                    /\ fp'.index = fp.index]_vars

C20_Witness ==
    /\ pc = "write" /\ last.op = "flush" /\ last.ret = 0
    /\ Len(fp.index) = 4 /\ fp.uncomp.pos = 0
    /\ Len(DataFrames(fp.hfp.data, 0)) = 2

(***************************************************************************)
(* Properties of a writer with a thread pool.                              *)
(***************************************************************************)
\* The seekable index of a closed file, as load_seekable_index reads it.
IndexOf(bytes) == load_seekable_index(bgzf2_open_r(bytes), FALSE).fp.index

RECURSIVE SumUncomp(_)
SumUncomp(idx) == IF idx = <<>> THEN 0 ELSE idx[1].uncomp + SumUncomp(Tail(idx))

RECURSIVE SumComp(_)
SumComp(idx) == IF idx = <<>> THEN 0 ELSE idx[1].comp + SumComp(Tail(idx))

\* The entries of the data frames of an index, in order: each follows the
\* entry of its preface.
DataEntries(idx) == [i \in 1..(Len(idx) \div 2) |-> idx[2 * i]]

\* The bytes of a sequence of blocks, in order.
RECURSIVE Concat(_)
Concat(blocks) == IF blocks = <<>> THEN <<>> ELSE blocks[1] \o Concat(Tail(blocks))

\* C4 (as claimed): in the file of a closed writer, each data entry of the
\* seekable index holds the number of bytes of its frame, the uncomp sizes
\* sum to the bytes written, and the comp sizes sum to the length of the
\* frames before the seekable index.
C4_IndexConsistent ==
    pc = "closed" =>
        /\ Len(DataEntries(IndexOf(disk))) = Len(DataFrames(disk, 0))
        /\ \A i \in 1..Len(DataFrames(disk, 0)) :
              DataEntries(IndexOf(disk))[i].uncomp = Len(DataFrames(disk, 0)[i])
        /\ SumUncomp(IndexOf(disk)) = written
        /\ SumComp(IndexOf(disk)) = Len(disk) - (17 + 8 * Len(IndexOf(disk)))

\* C5: with a pool, the data frames in the file are at all times the first
\* of the blocks the caller flushed, in the order of the flushes, whatever
\* the order the workers finished in; the closed file holds them all, and
\* reads back as the stream written.
C5_PoolWriteOrder ==
    /\ pc = "write" =>
          /\ Len(DataFrames(fp.hfp.data, 0)) <= Len(got)
          /\ DataFrames(fp.hfp.data, 0) = SubSeq(got, 1, Len(DataFrames(fp.hfp.data, 0)))
          /\ Len(fp.hfp.data) = 12 * Len(DataFrames(fp.hfp.data, 0))
                                + SumComp(DataEntries(fp.index))
    /\ pc = "closed" =>
          /\ DataFrames(disk, 0) = got
          /\ Concat(got) = Bytes(0, written)
          /\ bgzf2_read(bgzf2_open_r(disk), written + 1).out = Bytes(0, written)

C5_Witness ==
    /\ pc = "closed"
    /\ Len(calls) >= 2 /\ calls[1] > calls[2]
    /\ Len(DataFrames(disk, 0)) >= 2
    /\ written = PoolMaxBytes

C19_SkipFrames ==
    pc = "read" =>
        LET p == fp.hfp.pos
            d == fp.hfp.data
            flen == le_to_u32(SubSeq(d, p + 5, p + 8))
            skippable == /\ p + 8 <= Len(d)
                         /\ d[p + 1] \in 80..95
                         /\ SubSeq(d, p + 2, p + 4) = <<42, 77, 24>>
                         /\ ~(d[p + 1] = 80 /\ flen = 4)
            rb == bgzf2_read_block(fp.hfp, fp.comp)
        IN  /\ skippable =>
                  IF p + 8 + flen > Len(d) THEN rb.ret = -1
                  ELSE rb = bgzf2_read_block([fp.hfp EXCEPT !.pos = p + 8 + flen], fp.comp)
            /\ (calls[1].kind = "skip" /\ got # <<-1>>) =>
                  /\ got = Bytes(0, Len(got))
                  /\ Len(got) <= written
                  /\ (last.op = "read" /\ last.ret < last.arg) => got = Bytes(0, written)

C19_Witness ==
    /\ pc = "read" /\ calls[1].kind = "skip" /\ Len(calls[1].ins) > 11
    /\ calls[1].at > 0 /\ fp.hfp.pos = calls[1].at
    /\ last.op = "read" /\ last.ret = last.arg
    /\ Len(bgzf2_read(fp, written).out) = written - Len(got)
    /\ Len(got) < written

\* C13 (as claimed): once the writer thread has failed to write a block, the
\* failure is reported at the latest by bgzf2_close: a close under way
\* returns, and returns -1.
C13_FailureReported ==
    (io.pc = "failed" /\ main.op = "drain")
        ~> (pc = "closed" /\ last.op = "close" /\ last.ret = -1)

\* C15 (as claimed): without a pool, a bgzf2_read that has to fetch a block
\* and whose fetch fails returns -1 and copies no byte.
C15_ReadFetchFails ==
    [][(pc = "read" /\ ~fp.pool /\ last'.op = "read" /\ ~fp.hit_eof
        /\ (fp.uncomp.null \/ fp.uncomp.pos = fp.uncomp.sz)
        /\ bgzf2_decode_block(fp).ret < 0)
       => (pc' = "read" /\ last'.ret = -1 /\ last'.out = <<>>)]_vars

\* C16 (as claimed): without a pool, a bgzf2_flush with bytes in the buffer
\* during which a write to the file fails returns -1, on the first flush
\* as on the later ones.
C16_FlushFails ==
    [][(pc = "write" /\ pc' = "write" /\ ~fp.pool /\ last'.op = "flush"
        /\ written' = written /\ fp.uncomp.pos > 0 /\ fp'.hfp.wret = -1)
       => last'.ret = -1]_vars

\* C14 (as claimed): bgzf2_close of a writer with a pool always leaves the
\* loop of bgzf2_drain, whatever happened to the writer thread.
C14_CloseTerminates == (main.op = "drain") ~> (main.op # "drain")

(***************************************************************************)
(* Properties of a reader with a thread pool.                              *)
(***************************************************************************)
\* C12 (as claimed): once the pool is attached to a reader, a step that
\* reads or moves the file handle is a step of the reader thread: no call
\* of the caller is under way in it or returns by it.
C12_FileOnlyIoThread ==
    [][(fp.pool /\ fp'.hfp # fp.hfp) => (main' = main /\ last' = last)]_vars

\* C2 (as claimed): with a pool, the read that follows a bgzf2_seek(u)
\* which returned 0 returns the bytes B[u .. min(u+k, total)), whatever
\* was read or decoded before the seek.
C2_PoolSeekExact ==
    (last.op = "read" /\ last.from >= 0) =>
        /\ last.ret = Min(last.arg, written - last.from)
        /\ last.out = Bytes(last.from, Min(last.arg, written - last.from))

(***************************************************************************)
(* The frames at the start of a file.                                      *)
(***************************************************************************)
\* C24 (as claimed): the first bgzf2_flush of a non-empty buffer puts one
\* BGZF2 header frame (magic 0x184D2A5B, payload starting with "BGZ2") in
\* front of the first preface, so the file of a writer without a pool, as
\* soon as it holds a byte of a block, starts with that frame.
C24_HeaderFrame ==
    (pc = "write" /\ ~fp.pool /\ Len(fp.index) > 0 /\ fp.hfp.wret >= 0) =>
        /\ Len(fp.hfp.data) >= 12
        /\ SubSeq(fp.hfp.data, 1, 4) = <<91, 42, 77, 24>>
        /\ SubSeq(fp.hfp.data, 9, 12) = <<66, 71, 90, 50>>

(***************************************************************************)
(* The seekable index with checksums.                                      *)
(***************************************************************************)
\* C23 (as claimed): when bit 7 of the flags byte of the footer is set,
\* load_seekable_index takes every entry of the index frame as 12 bytes:
\* the frame is 9 + 12N + 8 bytes long, and the compressed and the
\* uncompressed size of entry i are the first 8 bytes of the i-th group of
\* 12 bytes.
C23_ChecksumEntries ==
    (pc = "read" /\ calls[1].kind = "chksum" /\ ~fp.hfp.pipe /\ fp.index_null) =>
        LET r == load_seekable_index(fp, FALSE)
            L == Len(disk)
            N == le_to_u32(SubSeq(disk, L - 8, L - 5))
            entry(i) == L - 9 - 12 * N + 12 * (i - 1)
        IN  /\ r.ret = 0
            /\ Len(r.fp.index) = N
            /\ \A i \in 1..N :
                  /\ r.fp.index[i].comp = le_to_u32(SubSeq(disk, entry(i) + 1, entry(i) + 4))
                  /\ r.fp.index[i].uncomp = le_to_u32(SubSeq(disk, entry(i) + 5, entry(i) + 8))

(***************************************************************************)
(* The writer without a pool by sizes: the bytes are left out, so that     *)
(* sizes near BGZF2_MAX_BLOCK_SIZE can be followed.  fp holds block_size,  *)
(* first_block, and sz and pos of the buffer fp->uncomp; disk holds the    *)
(* uncompressed size of each data frame written, in file order.  The       *)
(* caller asks for sizes 1..SizesSmall, BGZF2_MAX_BLOCK_SIZE and           *)
(* BGZF2_MAX_BLOCK_SIZE + 1; a write that may be split is made when it     *)
(* ends within three passes of the loop.  No allocation and no write to    *)
(* the file fails.                                                         *)
(***************************************************************************)
\* bgzf2_flush: the pos bytes stored become one data frame; after the
\* first block the buffer is set to block_size.
bgzf2_flush_sizes(f) ==
    IF f.uncomp.pos = 0 THEN f
    ELSE [f EXCEPT !.frames = Append(f.frames, f.uncomp.pos),
                   !.uncomp.pos = 0,
                   !.first_block = FALSE,
                   !.uncomp.sz = IF f.first_block THEN f.block_size ELSE f.uncomp.sz]

\* bgzf2_write of buf_sz bytes: the passes of the do-while loop.  A full
\* buffer is flushed; the bytes that fit are stored when that is all of
\* them or can_split is set; else the buffer is flushed and sized to buf_sz.
RECURSIVE bgzf2_write_sizes(_, _, _)
bgzf2_write_sizes(f, buf_sz, can_split) ==
    LET fl == IF f.uncomp.sz = f.uncomp.pos THEN bgzf2_flush_sizes(f) ELSE f
        consumes == Min(fl.uncomp.sz - fl.uncomp.pos, buf_sz)
    IN  IF consumes = buf_sz
        THEN [fl EXCEPT !.uncomp.pos = fl.uncomp.pos + consumes]
        ELSE IF can_split
        THEN bgzf2_write_sizes([fl EXCEPT !.uncomp.pos = fl.uncomp.pos + consumes],
                               buf_sz - consumes, can_split)
        ELSE bgzf2_write_sizes([bgzf2_flush_sizes(fl) EXCEPT !.uncomp.sz = buf_sz],
                               buf_sz, can_split)

\* bgzf2_set_block_size(fp, sz): block_size is set, the buffer is flushed
\* and sized to sz, to at most 1024 before the first block.
SizesSetBlockSize(sz) ==
    /\ Len(calls) < SizesMaxCalls
    /\ fp' = [bgzf2_flush_sizes([fp EXCEPT !.block_size = sz]) EXCEPT
                 !.uncomp.sz = IF fp.first_block /\ sz >= FIRST_BLOCK_SIZE
                               THEN FIRST_BLOCK_SIZE ELSE sz]
    /\ calls' = Append(calls, "set_block_size")
    /\ disk' = fp'.frames
    /\ UNCHANGED <<pc, written, last, got, io, main>>

\* bgzf2_write(fp, buf, len, can_split)
SizesWrite(len, can_split) ==
    /\ Len(calls) < SizesMaxCalls
    /\ can_split => \/ len <= SizesSmall
                    \/ (IF fp.first_block THEN fp.block_size ELSE fp.uncomp.sz)
                          >= BGZF2_MAX_BLOCK_SIZE
    /\ fp' = bgzf2_write_sizes(fp, len, can_split)
    /\ calls' = Append(calls, "write")
    /\ disk' = fp'.frames
    /\ UNCHANGED <<pc, written, last, got, io, main>>

\* bgzf2_flush(fp), also as made by bgzf2_close.
SizesFlush ==
    /\ Len(calls) < SizesMaxCalls
    /\ fp' = bgzf2_flush_sizes(fp)
    /\ calls' = Append(calls, "flush")
    /\ disk' = fp'.frames
    /\ UNCHANGED <<pc, written, last, got, io, main>>

\* From bgzf2_open for write: bgzf2_set_block_size(fp,
\* BGZF2_DEFAULT_BLOCK_SIZE) on the new handle.
InitSizes ==
    /\ pc = "write"
    /\ fp = [block_size |-> BGZF2_DEFAULT_BLOCK_SIZE, first_block |-> TRUE,
             uncomp |-> [sz |-> FIRST_BLOCK_SIZE, pos |-> 0], frames |-> <<>>]
    /\ disk = <<>> /\ written = 0 /\ calls = <<>> /\ last = NoCall /\ got = <<>>
    /\ io = NoThread /\ main = Idle

SpecSizes ==
    /\ InitSizes
    /\ [][\/ \E sz \in (1..SizesSmall) \cup {BGZF2_MAX_BLOCK_SIZE, BGZF2_MAX_BLOCK_SIZE + 1} :
               SizesSetBlockSize(sz)
          \/ \E len \in (1..SizesSmall) \cup {BGZF2_MAX_BLOCK_SIZE, BGZF2_MAX_BLOCK_SIZE + 1},
                can_split \in BOOLEAN :
               SizesWrite(len, can_split)
          \/ SizesFlush]_vars

\* C22 (as claimed): whatever bgzf2_set_block_size, bgzf2_write (any
\* length, can_split 0 or 1) and bgzf2_flush calls are made, no data frame
\* written holds more than BGZF2_MAX_BLOCK_SIZE uncompressed bytes, the
\* size above which the reader rejects a frame.
C22_FrameSizeBound ==
    \A i \in 1..Len(disk) : disk[i] <= BGZF2_MAX_BLOCK_SIZE

(***************************************************************************)
(* Properties of readers on the altered files.                             *)
(***************************************************************************)
\* C25 (as claimed): every bgzf2_seek made on a reader with a thread pool
\* returns in the end, whatever the reader thread is doing when the command
\* is sent, also when the seekable index cannot be loaded.
C25_SeekReturns == (main.op = "seek") ~> (main.op # "seek")


\* C21: once a read (bgzf2_read or bgzf2_read_zero_copy, for one byte or
\* more) has returned 0, the next bgzf2_read or bgzf2_read_zero_copy on the
\* handle with no seek in between returns 0 too, with and without a pool.
C21_EofSticks ==
    [][(/\ last.op \in {"read", "read_zero_copy"}
        /\ last.ret = 0
        /\ last' # last
        /\ last'.op \in {"read", "read_zero_copy"}) => last'.ret = 0]_vars

\* A read by bgzf2_read_zero_copy of a handle with a pool that had met the
\* end of the file in an earlier read.
C21_Witness ==
    /\ fp.pool
    /\ last.op = "read_zero_copy" /\ last.eof /\ last.ret = 0
    /\ Len(calls) >= 3

\* The reader thread, reading the frames from h on, meets a frame on which
\* bgzf2_mt_read_block fails (a result below 0) before the end of the file.
RECURSIVE ReadBlockFails(_)
ReadBlockFails(h) ==
    LET rb == bgzf2_mt_read_block([hfp |-> h], calloc_job)
    IN  IF rb.ret > 0 THEN ReadBlockFails(rb.fp.hfp) ELSE rb.ret < 0

\* C26: with a pool, on a file on which the reader thread fails to read or
\* parse a frame, the first read of the consumer that returns no byte
\* returns -1: a read returns 0 only after a read that returned -1 or 0.
C26_ReaderFailure ==
    [][(/\ fp.pool
        /\ got # <<-1>>
        /\ ReadBlockFails(hopen(fp.hfp.data))
        /\ last' # last
        /\ last'.op \in {"read", "read_zero_copy"}
        /\ last'.ret = 0)
       => (last.op \in {"read", "read_zero_copy"} /\ last.ret <= 0)]_vars

\* C27: with a pool, a read that finds its buffer used up and takes from
\* the queue a job on which bgzf2_decode_func failed (errcode set) returns
\* -1 and hands out no byte.
C27_DecodeFailure ==
    [][(/\ fp.pool /\ ~fp.hit_eof
        /\ main = Idle /\ main' = Idle
        /\ fp.uncomp.null \/ fp.uncomp.pos = fp.uncomp.sz
        /\ LET r == hts_tpool_next_result_wait(fp.out_queue)
           IN  ~r.blocked /\ ~r.null /\ ~r.j.hit_eof /\ r.j.errcode # 0
        /\ calls' # calls
        /\ last'.op \in {"read", "read_zero_copy"})
       => (last'.ret = -1 /\ last'.out = <<>>)]_vars

\* C30: in every state of a reader, with or without a pool, after any
\* reads and seeks (failed ones too), the cursor of the uncompressed
\* buffer is within its data: uncomp.pos <= uncomp.sz.
C30_CursorInBuffer ==
    (pc = "read" /\ ~fp.uncomp.null) => fp.uncomp.pos <= fp.uncomp.sz

\* C28: no job dispatched to bgzf2_decode_func (a job that carries the
\* data of a frame) has hit_eof set, jobs taken again from the free list
\* after an EOF or after the reset of a seek included.
C28_DataJobsNoEof ==
    (pc = "read" /\ fp.pool /\ ~fp.out_queue.null) =>
        /\ \A i \in 1..Len(fp.out_queue.input) :
              fp.out_queue.input[i].func = "bgzf2_decode_func"
                  => ~fp.out_queue.input[i].job.hit_eof
        /\ \A w \in fp.out_queue.processing :
              w.func = "bgzf2_decode_func" => ~w.job.hit_eof

\* C29: once bgzf2_seek(fp, u) on a reader with a pool has returned 0, the
\* result the queue hands to the consumer first is the block that holds
\* byte u of the data, and seek_to is the offset of u in that block; the
\* results that wait behind it are blocks from there on, in file order.
C29_FirstResultAfterSeek ==
    (pc = "read" /\ fp.pool /\ main = Idle /\ last.op = "seek" /\ last.ret = 0) =>
        LET r == hts_tpool_next_result_wait(fp.out_queue)
        IN  (~r.blocked /\ ~r.null) =>
                /\ ~r.j.hit_eof
                /\ r.j.errcode = 0
                /\ fp.seek_to >= 0 /\ fp.seek_to < r.j.uncomp.sz
                /\ SubSeq(r.j.uncomp.buf, 1, r.j.uncomp.sz)
                       = Bytes(last.arg - fp.seek_to, r.j.uncomp.sz)
                /\ \A o \in fp.out_queue.output :
                      ~o.job.hit_eof =>
                          /\ o.job.uncomp.sz > 0
                          /\ SubSeq(o.job.uncomp.buf, 1, o.job.uncomp.sz)
                                 = Bytes(o.job.uncomp.buf[1], o.job.uncomp.sz)
                          /\ o.job.uncomp.buf[1] >= last.arg - fp.seek_to
                          /\ \A o2 \in fp.out_queue.output :
                                (o2.serial < o.serial /\ ~o2.job.hit_eof)
                                    => o2.job.uncomp.buf[1] < o.job.uncomp.buf[1]

\* A seek to a byte that is not the first of its block has returned 0 and
\* the block is ready in the queue.
C29_Witness ==
    /\ pc = "read" /\ fp.pool /\ main = Idle /\ last.op = "seek" /\ last.ret = 0
    /\ fp.seek_to > 0
    /\ ~hts_tpool_next_result_wait(fp.out_queue).blocked
    /\ ~hts_tpool_next_result_wait(fp.out_queue).null

(***************************************************************************)
(* The size of the blocks of a writer.                                     *)
(***************************************************************************)
\* C35: once the first block is flushed and the buffer has the configured
\* size, a bgzf2_write with can_split = 0 of fewer than block_size bytes,
\* whether it fits in the space left or not, leaves the size of the buffer
\* at block_size.
C35_BlockSizeStable ==
    (pc = "write" /\ ~fp.first_block /\ fp.uncomp.sz = fp.block_size) =>
        \A len \in 1..SizesSmall :
            len < fp.block_size
                => bgzf2_write_sizes(fp, len, FALSE).uncomp.sz = fp.block_size

(***************************************************************************)
(* Frames without data.                                                    *)
(***************************************************************************)
\* C39: on a file with an empty data frame (content size 0) put in front
\* of a block, a reader without a pool that reads from the start and has
\* met EOF has been given every byte of the data, those of the blocks
\* after the empty frame included.
C39_EmptyFrameSkipped ==
    (pc = "read" /\ calls[1].kind = "empty_frame" /\ ~fp.pool
        /\ got # <<-1>> /\ fp.hit_eof)
        => got = Bytes(0, written)

(***************************************************************************)
(* index_query on an index without entries.                                *)
(***************************************************************************)
\* C38: on the index of a file closed with no data written (no entry),
\* index_query reads no entry and reports a range error: it returns NULL.
C38_EmptyIndexQuery ==
    (last.op = "query" /\ Len(fp.index) = 0) => last.ret = -1

(***************************************************************************)
(* bgzf2_decompress_block by sizes, one call after the other on the same   *)
(* buffers, as a reader without a pool makes them.  A frame is given by    *)
(* its blocks, each with its compressed size c and its size u once         *)
(* decompressed.  fp holds the argument usize (-2: unknown), sz and pos of *)
(* comp, the buffer uncomp, the blocks of the frame and the number of the  *)
(* next one to decode, input.pos, output.pos and output.size, the bytes    *)
(* decoded that the decoder still holds, the last value of                 *)
(* ZSTD_decompressStream (dsize) and the value returned.  Every frame is   *)
(* valid and no allocation fails.                                          *)
(***************************************************************************)
\* ZSTD_decompressStream: the bytes held are put out while there is room;
\* then the next block is taken from the input and decoded; 0 is returned
\* when the frame is decoded and all of it is put out.
RECURSIVE ZSTD_decompressStream(_)
ZSTD_decompressStream(s) ==
    LET n == Min(s.held, s.out_size - s.out_pos)
    IN  IF s.held - n > 0
        THEN [s EXCEPT !.out_pos = s.out_pos + n, !.held = s.held - n, !.dsize = 1]
        ELSE IF s.next > Len(s.blocks)
        THEN [s EXCEPT !.out_pos = s.out_pos + n, !.held = 0, !.dsize = 0]
        ELSE ZSTD_decompressStream([s EXCEPT !.out_pos = s.out_pos + n,
                                             !.in_pos = s.in_pos + s.blocks[s.next].c,
                                             !.held = s.blocks[s.next].u,
                                             !.next = s.next + 1])

\* The frames given to the decoder, and the sizes declared for the frames
\* with a content size.
StreamFrames ==
    {<<[c |-> 10, u |-> 1]>>, <<[c |-> 10, u |-> 2]>>,
     <<[c |-> 10, u |-> 1], [c |-> 5, u |-> 2]>>,
     <<[c |-> 20, u |-> 20000]>>,
     <<[c |-> 20, u |-> 9000], [c |-> 20, u |-> 9000]>>,
     <<[c |-> 268435456, u |-> BGZF2_MAX_BLOCK_SIZE + 1]>>}

StreamKnownSizes == {1, BGZF2_MAX_BLOCK_SIZE, BGZF2_MAX_BLOCK_SIZE + 1}

InitStream ==
    /\ pc = "decoded"
    /\ fp = [usize |-> 0, comp |-> [sz |-> 0, pos |-> 0], uncomp |-> NULL_BUFFER,
             blocks |-> <<>>, next |-> 1, in_pos |-> 0, held |-> 0,
             out_pos |-> 0, out_size |-> 0, dsize |-> 0, ret |-> 0]
    /\ disk = <<>> /\ written = 0 /\ calls = <<>> /\ last = NoCall /\ got = <<>>
    /\ io = NoThread /\ main = Idle

\* bgzf2_decompress_block(&comp, &uncomp, usize) on a frame of known size:
\* one ZSTD_decompress into a buffer of usize bytes.
DecompressKnown(usize) ==
    /\ pc = "decoded" /\ Len(calls) < StreamMaxCalls
    /\ IF usize > BGZF2_MAX_BLOCK_SIZE
       THEN /\ fp' = [fp EXCEPT !.usize = usize, !.ret = -1]
            /\ pc' = "failed"
       ELSE /\ fp' = [fp EXCEPT !.usize = usize, !.ret = usize,
                                !.uncomp = [bgzf2_buffer_grow(fp.uncomp, usize)
                                               EXCEPT !.pos = 0]]
            /\ pc' = "decoded"
    /\ calls' = Append(calls, "known")
    /\ last' = [NoCall EXCEPT !.op = "decompress", !.arg = usize, !.ret = fp'.ret]
    /\ UNCHANGED <<disk, written, got, io, main>>

\* bgzf2_decompress_block(&comp, &uncomp, -2) up to its first loop: pos of
\* both buffers is 0, a buffer without memory gets 4 * comp->sz + 8192
\* bytes, and the output is the whole of the memory of uncomp.
DecompressStream(blocks) ==
    /\ pc = "decoded" /\ Len(calls) < StreamMaxCalls
    /\ \E u \in {IF fp.uncomp.null \/ fp.uncomp.alloc = 0
                 THEN bgzf2_buffer_grow(fp.uncomp, SumSeq([i \in 1..Len(blocks) |->
                                                            blocks[i].c]) * 4 + 8192)
                 ELSE fp.uncomp} :
          fp' = [usize |-> -2,
                 comp |-> [sz |-> SumSeq([i \in 1..Len(blocks) |-> blocks[i].c]),
                           pos |-> 0],
                 uncomp |-> [u EXCEPT !.pos = 0],
                 blocks |-> blocks, next |-> 1, in_pos |-> 0, held |-> 0,
                 out_pos |-> 0, out_size |-> u.alloc, dsize |-> 1, ret |-> 0]
    /\ pc' = "stream"
    /\ calls' = Append(calls, "stream")
    /\ UNCHANGED <<disk, written, last, got, io, main>>

\* A pass of 'while (input.pos < input.size)': when input is left and the
\* output is full, the buffer grows to the guess made from the share of
\* the input used, by 10000 bytes at least.
StreamFirst ==
    /\ pc = "stream" /\ fp.in_pos < fp.comp.sz
    /\ \E d \in {ZSTD_decompressStream(fp)} :
          IF d.in_pos < d.comp.sz /\ d.out_size = d.out_pos
          THEN \E guess \in {Max(((d.comp.sz + 1) * 105 * d.out_size)
                                     \div ((d.in_pos + 1) * 100) + 1000,
                                 d.uncomp.alloc + 10000)} :
                  fp' = [d EXCEPT !.uncomp = bgzf2_buffer_grow(d.uncomp, guess),
                                  !.out_size = Max(d.uncomp.alloc, guess)]
          ELSE fp' = d
    /\ UNCHANGED <<pc, disk, written, calls, last, got, io, main>>

\* A pass of 'while (dsize != 0)', with the input used up: the buffer grows
\* when uncomp->pos is uncomp->sz.  A call of ZSTD_decompressStream that
\* can put out nothing returns as before, or an error.
StreamSecond ==
    /\ pc = "stream" /\ fp.in_pos >= fp.comp.sz /\ fp.dsize # 0
    /\ \E u \in {IF fp.uncomp.pos = fp.uncomp.sz
                 THEN bgzf2_buffer_grow(fp.uncomp, (fp.uncomp.alloc * 3) \div 2 + 100000)
                 ELSE fp.uncomp} :
          \E d \in {ZSTD_decompressStream([fp EXCEPT !.uncomp = u,
                                                     !.out_size = u.alloc])} :
              \E error \in {FALSE, d.out_pos = fp.out_pos} :
                  IF error
                  THEN fp' = [d EXCEPT !.ret = -1] /\ pc' = "failed"
                  ELSE fp' = d /\ pc' = pc
    /\ UNCHANGED <<disk, written, calls, last, got, io, main>>

\* The end of the call: uncomp->sz is output.pos, and is returned.
StreamReturn ==
    /\ pc = "stream" /\ fp.in_pos >= fp.comp.sz /\ fp.dsize = 0
    /\ fp' = [fp EXCEPT !.uncomp.sz = fp.out_pos, !.uncomp.pos = 0, !.ret = fp.out_pos]
    /\ pc' = "decoded"
    /\ last' = [NoCall EXCEPT !.op = "decompress", !.arg = -2, !.ret = fp.out_pos]
    /\ UNCHANGED <<disk, written, calls, got, io, main>>

SpecStream ==
    /\ InitStream
    /\ [][\/ \E usize \in StreamKnownSizes : DecompressKnown(usize)
          \/ \E blocks \in StreamFrames : DecompressStream(blocks)
          \/ StreamFirst
          \/ StreamSecond
          \/ StreamReturn]_vars

\* C36: a call of bgzf2_decompress_block that does not fail leaves a block
\* of at most BGZF2_MAX_BLOCK_SIZE bytes, on the path for frames of known
\* size and on the streaming path.
C36_DecodedSizeBound ==
    (pc = "decoded" /\ last.op = "decompress" /\ last.ret >= 0)
        => fp.uncomp.sz <= BGZF2_MAX_BLOCK_SIZE

\* C37: a pass of the second loop of the streaming path that finds the
\* input used up, the stream not ended and the output full makes the
\* output buffer larger.
C37_StreamGrows ==
    [][(/\ pc = "stream" /\ fp.in_pos >= fp.comp.sz /\ fp.dsize # 0
        /\ fp.out_pos = fp.out_size
        /\ fp' # fp)
       => fp'.uncomp.alloc > fp.uncomp.alloc]_vars

(***************************************************************************)
(* The jobs of the reader thread and the header of their frame.            *)
(***************************************************************************)
\* C40: a job dispatched to bgzf2_decode_func has known_size set exactly
\* when its frame has a content size in its header, and a job for a frame
\* without one has errcode 0.
C40_KnownSizeAtDispatch ==
    (pc = "read" /\ fp.pool /\ ~fp.out_queue.null) =>
        \A i \in 1..Len(fp.out_queue.input) :
            LET r == fp.out_queue.input[i]
                usize == ZSTD_getFrameContentSize(SubSeq(r.job.comp.buf, 1, r.job.comp.sz))
            IN  r.func = "bgzf2_decode_func" =>
                    /\ r.job.known_size <=> (usize >= 0)
                    /\ (usize = ZSTD_CONTENTSIZE_UNKNOWN) => r.job.errcode = 0

(***************************************************************************)
(* bgzf2_close of a writer with a thread pool when memory runs out: the    *)
(* job for the last block cannot be allocated.                             *)
(***************************************************************************)
\* bgzf2_close, bgzf2_drain: bgzf2_job_new returns NULL in
\* bgzf2_write_block_mt, bgzf2_flush returns -1 (the first block apart,
\* where the result is that of bgzf2_buffer_grow) and bgzf2_drain returns
\* -1 at once; bgzf2_close writes the seekable index and destroys the
\* queue before it joins the thread.
PoolDrainNoMemory ==
    /\ pc = "write" /\ fp.pool /\ main = Idle
    /\ fp.uncomp.pos > 0 /\ ~fp.first_block /\ fp.job_free_list = <<>>
    /\ fp' = hts_tpool_process_destroy(write_seekable_index(fp))
    /\ main' = [op |-> "join", ret |-> -1]
    /\ UNCHANGED <<pc, disk, written, calls, last, got, io>>

SpecCloseWriter ==
    /\ InitPoolWriter
    /\ [][\/ \E len \in 0..(PoolMaxBytes - written), can_split \in BOOLEAN :
               PoolWriteCall(len, can_split)
          \/ PoolWriteStep
          \/ PoolFlush
          \/ \E sz \in 1..PoolMaxBlock : PoolSetBlockSize(sz)
          \/ PoolDrainFlush
          \/ PoolDrainNoMemory
          \/ PoolDrainWait
          \/ PoolJoin
          \/ WorkerTake
          \/ WorkerDone
          \/ MtWriterResult
          \/ MtWriterExit]_vars

\* C31: a step in which bgzf2_close of a writer with a pool writes the
\* seekable index (after a drain that failed, or after the drain and its
\* join) starts with the writer thread ended and no block dispatched that
\* is not yet written and indexed.
C31_IndexAfterWriter ==
    [][((pc = "write" /\ fp.pool)
           /\ \/ main = Idle /\ main'.op = "join" /\ main'.ret < 0
              \/ main.op = "join" /\ main.ret = 0 /\ main' = Idle)
       => (/\ io.pc \in {"exit", "failed"}
           /\ fp.jobs_pending = 0
           /\ fp.out_queue.input = <<>> /\ fp.out_queue.processing = {})]_vars

\* C33: the I/O thread of a handle that was closed was joined once.
C33_JoinedOnce == (io.pc = "joined") => (io.joins = 1)

(***************************************************************************)
(* bgzf2_close of a reader with a thread pool, on the altered files, at    *)
(* any moment after the pool is attached and after at most one read.  The  *)
(* reader thread and the workers go on running whenever they can, and so   *)
(* does the caller inside bgzf2_close.                                     *)
(***************************************************************************)
\* bgzf2_close that leaves fp->command as it is.
PoolCloseCall_no_command ==
    /\ pc = "read" /\ fp.pool /\ main = Idle
    /\ fp' = [fp EXCEPT !.out_queue = hts_tpool_wake_dispatch(fp.out_queue)]
    /\ main' = [op |-> "close"]
    /\ UNCHANGED <<pc, disk, written, calls, last, got, io>>

\* bgzf2_close: the command CLOSE, pthread_cond_signal and
\* hts_tpool_wake_dispatch, under the mutex of the command.
PoolCloseCall ==
    /\ pc = "read" /\ fp.pool /\ main = Idle
    /\ fp' = [fp EXCEPT !.command = "CLOSE",
                        !.out_queue = hts_tpool_wake_dispatch(fp.out_queue)]
    /\ main' = [op |-> "close"]
    /\ UNCHANGED <<pc, disk, written, calls, last, got, io>>

\* bgzf2_close: hts_tpool_process_destroy(fp->out_queue), which waits for
\* the jobs that workers are running.
PoolCloseDestroy ==
    /\ main.op = "close"
    /\ fp.out_queue.processing = {}
    /\ fp' = hts_tpool_process_destroy(fp)
    /\ main' = [op |-> "close_join"]
    /\ UNCHANGED <<pc, disk, written, calls, last, got, io>>

\* bgzf2_close: pthread_join returns once the reader thread has ended; the
\* value of the thread is NULL, or the address of the errcode of its job.
PoolCloseJoin ==
    /\ main.op = "close_join" /\ io.pc = "exit"
    /\ pc' = "closed"
    /\ fp' = calloc_bgzf2
    /\ io' = [pc |-> "joined", joins |-> 1]
    /\ main' = Idle
    /\ last' = [NoCall EXCEPT !.op = "close"]
    /\ UNCHANGED <<disk, written, calls, got>>

\* The reader thread is infinitely often unable to take a step (every step
\* of it changes io), or takes infinitely many.
ReaderGoesOn ==
    \/ []<>~((io.pc = "loop"
                 /\ ~hts_tpool_dispatch3(fp.out_queue, "", calloc_job).blocked)
              \/ (io.pc \in {"command", "seek"})
              \/ (io.pc = "eofwait" /\ fp.command \in {"SEEK", "CLOSE"})
              \/ (io.pc \in {"seek_reset", "destroy"}
                    /\ fp.out_queue.processing = {}))
    \/ []<><<io' # io>>_vars

SpecCloseReader ==
    /\ InitDamaged
    /\ [][\/ ~fp.hfp.pipe /\ AttachPool
          \/ ReaderBlock
          \/ ReaderCommand
          \/ ReaderEofWait
          \/ ReaderSeek
          \/ ReaderSeekDone
          \/ ReaderDestroy
          \/ WorkerTake
          \/ WorkerDone
          \/ \E k \in 1..MaxRead : Len(calls) = 1 /\ PoolReadCall(k)
          \/ PoolReadStep
          \/ \E u \in 0..written : Len(calls) = 1 /\ PoolSeekCall(u)
          \/ PoolSeekReturn
          \/ PoolCloseCall
          \/ PoolCloseDestroy
          \/ PoolCloseJoin]_vars
    /\ ReaderGoesOn
    /\ WF_vars(WorkerTake) /\ WF_vars(WorkerDone)
    /\ WF_vars(PoolCloseDestroy) /\ WF_vars(PoolCloseJoin)

\* C32: bgzf2_close of a reader with a pool returns, with the reader
\* thread ended and joined, wherever the reader thread was when the
\* command CLOSE was sent.
C32_ReaderCloseTerminates ==
    (main.op = "close") ~> (pc = "closed" /\ io.pc = "joined")

\* bgzf2_close of a reader with a pool on a file of the writer has
\* returned after one call, the reader thread joined.
C32_Witness ==
    /\ pc = "closed" /\ io.pc = "joined" /\ last.op = "close"
    /\ calls[1].kind = "none" /\ Len(calls) = 2

=============================================================================
